---- MODULE Spec2Model ----
(***************************************************************************)
(* State-machine model of the MUD turn engine: the rules engine            *)
(* (data/rules), the combat resolver (engine/combat), the player state     *)
(* store (engine/playerState), the action engine (engine/gameEngine.js)    *)
(* and the part of the agent pipeline that changes the player              *)
(* (agents/agentPipeline.js).  One action of the model is one whole turn.  *)
(*                                                                         *)
(* JavaScript strings that are matched against each other (targets, names, *)
(* ids) are sequences of one-character strings.  Random draws are          *)
(* nondeterministic choices over every outcome the draw can have.          *)
(***************************************************************************)
EXTENDS Integers, Sequences, FiniteSets, TLC

VARIABLES players, nodes, entities, turns

vars == <<players, nodes, entities, turns>>

(***************************************************************************)
(* Bounds of the model.                                                    *)
(***************************************************************************)
MaxTurns == 2
MaxSkillUps == 1
MaxAchievements == 1

(***************************************************************************)
(* Strings.                                                                *)
(***************************************************************************)
NoId == "none"

Spell(id) ==
  CASE id = "rat"    -> <<"r", "a", "t">>
    [] id = "ogre"   -> <<"o", "g", "r", "e">>
    [] id = "bob"    -> <<"b", "o", "b">>
    [] id = "pipe"   -> <<"p", "i", "p", "e">>
    [] id = "tonic"  -> <<"t", "o", "n", "i", "c">>
    [] id = "rock"   -> <<"r", "o", "c", "k">>
    [] id = "iron_lootbox" -> <<"i", "r", "o", "n", "_", "l", "o", "o", "t", "b", "o", "x">>
    [] id = "str"    -> <<"s", "t", "r">>
    [] id = "dex"    -> <<"d", "e", "x">>
    [] id = "con"    -> <<"c", "o", "n">>
    [] id = "int"    -> <<"i", "n", "t">>
    [] id = "wis"    -> <<"w", "i", "s">>
    [] id = "cha"    -> <<"c", "h", "a">>
    [] id = "imp"    -> <<"i", "m", "p">>
    [] id = "guide"  -> <<"g", "u", "i", "d", "e">>
    [] id = "wisp"   -> <<"w", "i", "s", "p">>
    [] id = "bat"    -> <<"b", "a", "t">>
    [] id = "cap"    -> <<"c", "a", "p">>
    [] id = "ring"   -> <<"r", "i", "n", "g">>
    [] id = "gold_chest" -> <<"g", "o", "l", "d", "_", "c", "h", "e", "s", "t">>
    [] id = "tin_lootbox" -> <<"t", "i", "n", "_", "l", "o", "o", "t", "b", "o", "x">>
    [] id = "bronze_lootbox"
         -> <<"b", "r", "o", "n", "z", "e", "_", "l", "o", "o", "t", "b", "o", "x">>
    [] OTHER         -> <<"?">>

LowerChar(c) ==
  CASE c = "R" -> "r" [] c = "O" -> "o" [] c = "B" -> "b" [] c = "A" -> "a"
    [] c = "T" -> "t" [] c = "P" -> "p" [] c = "C" -> "c" [] c = "I" -> "i"
    [] c = "L" -> "l" [] c = "G" -> "g" [] c = "W" -> "w"
    [] OTHER -> c

toLowerCase(s) == [i \in DOMAIN s |-> LowerChar(s[i])]

includes(s, t) ==
  \E i \in 0..(Len(s) - Len(t)) : SubSeq(s, i + 1, i + Len(t)) = t

RECURSIVE stripSpaces(_)
stripSpaces(s) ==
  IF s = <<>> THEN <<>>
  ELSE IF Head(s) \in {" ", "_"} THEN stripSpaces(Tail(s))
       ELSE <<Head(s)>> \o stripSpaces(Tail(s))

(* intent.target: a string, or absent.  (targetId || '') *)
NoTarget == [present |-> FALSE, chars |-> <<>>]
Target(chars) == [present |-> TRUE, chars |-> chars]
orEmpty(t) == IF t.present THEN t.chars ELSE <<>>

(* the stat a target string names, NoId when it names none *)
nameOf(t) ==
  IF t.present /\ \E n \in {"str", "dex", "con", "int", "wis", "cha"} : Spell(n) = t.chars
  THEN CHOOSE n \in {"str", "dex", "con", "int", "wis", "cha"} : Spell(n) = t.chars
  ELSE NoId

(***************************************************************************)
(* Rules engine.                                                           *)
(***************************************************************************)
BASE_STAT == 10
STAT_POINTS_PER_LEVEL == 2
BASE_HP == 50
BASE_INVENTORY_SLOTS == 10
MAX_SKILL_LEVEL == 10
STATS == {"str", "dex", "con", "int", "wis", "cha"}
SKILL_NAMES ==
  {"firstAid", "scavenge", "improvise", "dodge", "sprint", "flee", "climb",
   "inspect", "senseDanger", "sneak", "taunt", "flair"}
Slots == {"weapon", "head", "chest", "feet"}
Directions == {"n", "s", "e", "w", "down", "up"}

Max(a, b) == IF a >= b THEN a ELSE b
Min(a, b) == IF a <= b THEN a ELSE b

getModifier(statValue) == (statValue - 10) \div 2

calculateMaxHp(level, con) == BASE_HP + (con * 2) + (level * 5)

calculateDamage_raw(weaponAttack, attackerStr, targetDefense) ==
  weaponAttack + getModifier(attackerStr) - targetDefense

calculateDamage(weaponAttack, attackerStr, targetDefense) ==
  Max(1, weaponAttack + getModifier(attackerStr) - targetDefense)

xpToNextLevel(currentLevel) == currentLevel * 100

calculateInventorySlots(str) == BASE_INVENTORY_SLOTS + getModifier(str)

(* hazardLevel * 1d6: every value the die can give *)
calculateHazardDamage(hazardLevel) ==
  IF hazardLevel <= 0 THEN {0} ELSE {hazardLevel * d6 : d6 \in 1..6}

createStartingStats == [s \in STATS |-> BASE_STAT]

createStartingSkills == [s \in SKILL_NAMES |-> 1]

skillThreshold_unclamped(skillLevel, statValue, baseDifficulty) ==
  baseDifficulty - (skillLevel * 5) - (getModifier(statValue) * 3)

skillThreshold(skillLevel, statValue, baseDifficulty) ==
  Max(5, Min(95, baseDifficulty - (skillLevel * 5) - (getModifier(statValue) * 3)))

(* one record per value of the roll, 1..100 *)
rollSkillCheck(skillLevel, statValue, baseDifficulty) ==
  LET threshold == skillThreshold(skillLevel, statValue, baseDifficulty)
  IN  {[success |-> roll >= threshold, roll |-> roll, threshold |-> threshold] :
         roll \in 1..100}

(* the outcomes of a check that a handler can see *)
checkOutcomes(skillLevel, statValue, baseDifficulty) ==
  {success \in BOOLEAN :
     \E c \in rollSkillCheck(skillLevel, statValue, baseDifficulty) : c.success = success}

checkSkillLevelUp_uncapped(currentLevel) == {TRUE, FALSE}

(* Math.random() < chance with chance in (0,1): both outcomes *)
checkSkillLevelUp(currentLevel) ==
  IF currentLevel >= MAX_SKILL_LEVEL THEN {FALSE} ELSE {TRUE, FALSE}

LootboxXp(tier) ==
  CASE tier = "iron" -> 10 [] tier = "bronze" -> 25
    [] tier = "silver" -> 50 [] tier = "gold" -> 100 [] OTHER -> 0

lootboxXpReward_flat(tier) == 10

(* LOOTBOX_XP[tier] || 10 *)
lootboxXpReward(tier) == IF LootboxXp(tier) # 0 THEN LootboxXp(tier) ELSE 10

(* weighted draw over entries = <<[itemId, weight]>>.  The draw              *)
(* Math.random() * totalWeight is a real in [0, totalWeight): it is taken in *)
(* half units, roll = 2 * draw, which reaches every entry a real draw can.   *)
RECURSIVE totalWeight(_)
totalWeight(entries) ==
  IF entries = <<>> THEN 0 ELSE Head(entries).weight + totalWeight(Tail(entries))

(* the loop: the first entry at which the remainder is <= 0, NoId when the *)
(* loop ends without one                                                  *)
RECURSIVE rollLootFrom(_, _)
rollLootFrom(entries, roll) ==
  IF entries = <<>> THEN NoId
  ELSE IF roll - (2 * Head(entries).weight) <= 0 THEN Head(entries).itemId
       ELSE rollLootFrom(Tail(entries), roll - (2 * Head(entries).weight))

(* the draws: Math.random() * total in half units, and one draw past the   *)
(* total for the floating-point products and differences that leave a     *)
(* remainder above 0 after the last entry                                  *)
lootDraws(total) == 0..((2 * total) + 1)

lootFallback_none(entries) == NoId

(* return entries[entries.length - 1].itemId *)
lootFallback(entries) == entries[Len(entries)].itemId

rollLootAt(entries, roll) ==
  IF rollLootFrom(entries, roll) # NoId
  THEN rollLootFrom(entries, roll)
  ELSE lootFallback(entries)

rollLoot(lootTable) ==
  {rollLootAt(lootTable, roll) : roll \in lootDraws(totalWeight(lootTable))}

(* item.rarity || 0.1, in tenths *)
rarityOf(item) == IF item.rarity = 0 THEN 1 ELSE item.rarity

(* rollRandomItemByRarity(items): null for an empty list, else the same *)
(* walk over the rarities                                               *)
rollRandomItemByRarity(items) ==
  IF items = <<>> THEN {NoId}
  ELSE LET entries == [i \in DOMAIN items |->
                         [itemId |-> items[i].itemId, weight |-> rarityOf(items[i])]]
       IN  {rollLootAt(entries, roll) : roll \in lootDraws(totalWeight(entries))}

(***************************************************************************)
(* Events: every event record has the same five fields; list is the list  *)
(* an event carries (the exits an error names), empty for the others.      *)
(***************************************************************************)
Ev(type, subject, detail, n) ==
  [type |-> type, subject |-> subject, detail |-> detail, n |-> n, list |-> <<>>]

ErrorEv(message) == Ev("error", "", message, 0)

RECURSIVE hasType(_, _)
hasType(events, type) ==
  IF events = <<>> THEN FALSE
  ELSE Head(events).type = type \/ hasType(Tail(events), type)

(***************************************************************************)
(* World data: the documents of the items and lootTables collections,      *)
(* which no turn writes, and the rooms and entities as seeded.             *)
(***************************************************************************)
Item(name, type, tier, slot, attack, defense, healAmount) ==
  [name |-> name, type |-> type, tier |-> tier, slot |-> slot,
   stats |-> [attack |-> attack, defense |-> defense, healAmount |-> healAmount]]

ItemIds ==
  {"pipe", "tonic", "rock", "iron_lootbox", "bat", "cap", "ring",
   "gold_chest", "tin_lootbox", "bronze_lootbox"}

(* getDoc('items', id): the item documents; "ghost" is an id with no document *)
ItemDocs ==
  [id \in ItemIds |->
     CASE id = "pipe"  -> Item(<<"P", "i", "p", "e">>, "weapon", "iron", NoId, 3, 0, 0)
       [] id = "tonic" -> Item(<<"T", "o", "n", "i", "c">>, "consumable", "iron", NoId, 0, 0, 40)
       [] id = "rock"  -> Item(<<"R", "o", "c", "k">>, "misc", "iron", NoId, 0, 0, 0)
       [] id = "bat"   -> Item(<<"B", "a", "t">>, "weapon", "iron", "weapon", 2, 0, 0)
       [] id = "cap"   -> Item(<<"C", "a", "p">>, "armor", "iron", "head", 0, 1, 0)
       [] id = "ring"  -> Item(<<"R", "i", "n", "g">>, "armor", "iron", "finger", 0, 0, 0)
       [] id = "gold_chest"
            -> Item(<<"G", "o", "l", "d", " ", "C", "h", "e", "s", "t">>,
                    "lootbox", "gold", NoId, 0, 0, 0)
       [] id = "tin_lootbox"
            -> Item(<<"T", "i", "n", " ", "B", "o", "x">>, "lootbox", "tin", NoId, 0, 0, 0)
       [] id = "bronze_lootbox"
            -> Item(<<"B", "r", "o", "n", "z", "e", " ", "B", "o", "x">>,
                    "lootbox", "bronze", NoId, 0, 0, 0)
       [] OTHER        -> Item(<<"I", "r", "o", "n", " ", "B", "o", "x">>, "lootbox", "iron", NoId, 0, 0, 0)]

hasItemDoc(id) == id \in DOMAIN ItemDocs

(* getDoc('lootTables', id) *)
LootTableIds == {"rat_loot", "lootbox_iron", "lootbox_gold", "lootbox_tin"}

LootTables ==
  [id \in LootTableIds |->
     CASE id = "rat_loot"
            -> <<[itemId |-> "tonic", weight |-> 1], [itemId |-> "ghost", weight |-> 1]>>
       [] id = "lootbox_gold"
            -> <<[itemId |-> "tonic", weight |-> 1], [itemId |-> "bat", weight |-> 3]>>
       [] id = "lootbox_tin" -> <<[itemId |-> "ghost", weight |-> 1]>>
       [] OTHER
            -> <<[itemId |-> "rock", weight |-> 2], [itemId |-> "ghost", weight |-> 1]>>]

hasLootTable(id) == id \in DOMAIN LootTables

EntityIds == {"rat", "ogre", "bob", "imp", "guide", "wisp"}

Entity(name, class, hp, attack, defense, xpReward, lootTableId, respawns) ==
  [name |-> name, entityClass |-> class, hp |-> hp, maxHp |-> hp, attack |-> attack,
   defense |-> defense, xpReward |-> xpReward, lootTableId |-> lootTableId,
   respawns |-> respawns]

SeedEntities ==
  [id \in EntityIds |->
     CASE id = "rat"  -> Entity(<<"R", "a", "t">>, "Beast", 1, 40, 0, 100, "rat_loot", TRUE)
       [] id = "ogre" -> Entity(<<"O", "r", "a", "t">>, "Brute", 2, 40, 0, 50, "ogre_loot", FALSE)
       [] id = "bob"  -> Entity(<<"B", "o", "b">>, "Merchant", 5, 0, 0, 0, NoId, TRUE)
       [] id = "guide" -> Entity(<<"G", "u", "i", "d", "e">>, "TutorialGuide", 5, 0, 0, 0, NoId, TRUE)
       [] id = "wisp" -> Entity(<<"W", "i", "s", "p">>, "Fiend", 3, 10, 0, 0, NoId, FALSE)
       [] OTHER       -> Entity(<<"I", "m", "p">>, "Fiend", 1, 40, 0, 0, NoId, FALSE)]

NodeIds == {"plaza", "alley", "cell"}

Node(ents, items, hazardLevel, conns) ==
  [entities |-> ents, items |-> items, hazardLevel |-> hazardLevel,
   connections |-> [d \in Directions |-> IF d \in DOMAIN conns THEN conns[d] ELSE NoId]]

SeedNodes ==
  [id \in NodeIds |->
     CASE id = "plaza" -> Node(<<"rat", "ogre", "bob">>, <<"pipe", "tonic">>, 0,
                               [n |-> "alley", e |-> "void"])
       [] id = "alley" -> Node(<<"imp", "guide">>, <<>>, 40, [s |-> "plaza", down |-> "cell"])
       [] OTHER        -> Node(<<"wisp">>, <<>>, 0, [n |-> NoId])]

STARTING_NODE == "plaza"

(***************************************************************************)
(* Player state store.                                                     *)
(***************************************************************************)
createPlayer(stats, startingInventory) ==
  [level |-> 1, xp |-> 0, stats |-> stats, skills |-> createStartingSkills,
   hp |-> calculateMaxHp(1, stats["con"]), maxHp |-> calculateMaxHp(1, stats["con"]),
   location |-> STARTING_NODE, inventory |-> startingInventory,
   equipment |-> [s \in Slots |-> NoId],
   achievements |-> 0, statPointsAvailable |-> 0, alive |-> TRUE,
   explored |-> <<STARTING_NODE>>,
   statistics |-> [lootboxesOpened |-> 0, entitiesKilled |-> 0]]

getPlayerAttack(player) ==
  IF player.equipment["weapon"] # NoId
  THEN ItemDocs[player.equipment["weapon"]].stats.attack
  ELSE 0

slotDefense(player, slot) ==
  IF player.equipment[slot] # NoId THEN ItemDocs[player.equipment[slot]].stats.defense ELSE 0

getPlayerDefense(player) ==
  slotDefense(player, "head") + slotDefense(player, "chest") + slotDefense(player, "feet")

getInventoryCapacity(player) == calculateInventorySlots(player.stats["str"])

getSkillLevel(player, skillName) == player.skills[skillName]

(***************************************************************************)
(* Combat resolver.  Each operator gives the set of outcomes of one call.  *)
(***************************************************************************)
rollDodge(player, eid, entity) ==
  LET dodgeLevel == getSkillLevel(player, "dodge")
      baseDifficulty == 65 + (entity.attack \div 2)
  IN  UNION {
        IF success
        THEN {[player |-> IF up THEN [player EXCEPT !.skills["dodge"] = @ + 1] ELSE player,
               events |-> <<Ev("skill_check", "Dodge", "success", 0)>>
                          \o (IF up THEN <<Ev("skill_level_up", "Dodge", "", dodgeLevel + 1)>>
                              ELSE <<>>),
               dodged |-> TRUE] : up \in checkSkillLevelUp(dodgeLevel)}
        ELSE {[player |-> player, events |-> <<>>, dodged |-> FALSE]}
        : success \in checkOutcomes(dodgeLevel, player.stats["dex"], baseDifficulty)}

entityStrike_marksDead(player, eid, entity, events) ==
  LET entityDamage == calculateDamage(entity.attack, 10, getPlayerDefense(player))
      hp == Max(0, player.hp - entityDamage)
  IN  [player |-> [player EXCEPT !.hp = hp, !.alive = hp > 0],
       events |-> events \o <<Ev("entity_attack", eid, "", entityDamage)>>
                  \o (IF hp <= 0 THEN <<Ev("player_death", eid, "", 0)>> ELSE <<>>),
       playerDead |-> hp <= 0]

(* the entity's attack on the player once the dodge has failed *)
entityStrike(player, eid, entity, events) ==
  LET entityDamage == calculateDamage(entity.attack, 10, getPlayerDefense(player))
      hp == Max(0, player.hp - entityDamage)
      hit == [player EXCEPT !.hp = hp]
      ev == events \o <<Ev("entity_attack", eid, "", entityDamage)>>
  IN  IF hp <= 0
      THEN [player |-> hit, events |-> ev \o <<Ev("player_death", eid, "", 0)>>,
            playerDead |-> TRUE]
      ELSE [player |-> hit, events |-> ev, playerDead |-> FALSE]

resolveEnemyAttack(player, eid, entity) ==
  {IF d.dodged
   THEN [player |-> d.player, events |-> d.events, playerDead |-> FALSE]
   ELSE entityStrike(d.player, eid, entity, d.events)
   : d \in rollDodge(player, eid, entity)}

defenderDown_never(struck) == FALSE

(* if (entity.hp <= 0): the round ends with the kill *)
defenderDown(struck) == struck.hp <= 0

resolveCombat(player, eid, entity) ==
  LET isBareFists == player.equipment["weapon"] = NoId
      improviseMod == getSkillLevel(player, "improvise") \div 2
      weaponAttack == getPlayerAttack(player) + (IF isBareFists THEN improviseMod ELSE 0)
      ev0 == IF isBareFists /\ improviseMod > 0
             THEN <<Ev("skill_check", "Improvise", "passive", improviseMod)>> ELSE <<>>
      playerDamage == calculateDamage(weaponAttack, player.stats["str"], entity.defense)
      struck == [entity EXCEPT !.hp = Max(0, entity.hp - playerDamage)]
      ev1 == ev0 \o <<Ev("player_attack", eid, "", playerDamage)>>
  IN  IF defenderDown(struck)
      THEN {[player |-> player, entity |-> struck,
             events |-> ev1 \o <<Ev("entity_killed", eid, "", entity.xpReward)>>,
             entityDead |-> TRUE, playerDead |-> FALSE]}
      ELSE {LET r == IF d.dodged
                     THEN [player |-> d.player, events |-> ev1 \o d.events, playerDead |-> FALSE]
                     ELSE entityStrike(d.player, eid, entity, ev1 \o d.events)
            IN  [player |-> r.player, entity |-> struck, events |-> r.events,
                 entityDead |-> FALSE, playerDead |-> r.playerDead]
            : d \in rollDodge(player, eid, entity)}

(***************************************************************************)
(* Level-up loop.                                                          *)
(***************************************************************************)
checkLevelUp_once(player) ==
  IF player.xp >= xpToNextLevel(player.level)
  THEN LET level == player.level + 1
           maxHp == calculateMaxHp(level, player.stats["con"])
       IN  [player |-> [player EXCEPT !.xp = @ - xpToNextLevel(player.level),
                                      !.level = level,
                                      !.statPointsAvailable = @ + STAT_POINTS_PER_LEVEL,
                                      !.maxHp = maxHp,
                                      !.hp = maxHp],
            events |-> <<Ev("level_up", "", "", level)>>]
  ELSE [player |-> player, events |-> <<>>]

RECURSIVE checkLevelUp(_)
checkLevelUp(player) ==
  IF player.xp >= xpToNextLevel(player.level)
  THEN LET level == player.level + 1
           maxHp == calculateMaxHp(level, player.stats["con"])
           p1 == [player EXCEPT !.xp = @ - xpToNextLevel(player.level),
                                !.level = level,
                                !.statPointsAvailable = @ + STAT_POINTS_PER_LEVEL,
                                !.maxHp = maxHp,
                                !.hp = maxHp]
           rest == checkLevelUp(p1)
       IN  [player |-> rest.player,
            events |-> <<Ev("level_up", "", "", level)>> \o rest.events]
  ELSE [player |-> player, events |-> <<>>]

(***************************************************************************)
(* The document store as one value, and what a handler returns.            *)
(* st = [players, nodes, entities]; a handler gives the set of its         *)
(* possible results [events, player, st, threw]: player is the object the  *)
(* handler returns (result.player), st the store after its writes.         *)
(***************************************************************************)
hasNode(st, id) == id \in DOMAIN st.nodes
hasEntity(st, id) == id \in DOMAIN st.entities

savePlayer(st, pid, player) == [st EXCEPT !.players[pid] = player]

Result(events, player, st) ==
  [events |-> events, player |-> player, st |-> st, threw |-> FALSE]

(* a TypeError raised inside a handler: nothing is returned *)
Thrown(player, st) ==
  [events |-> <<>>, player |-> player, st |-> st, threw |-> TRUE]

(* index of the first element of seq satisfying the test, 0 when there is none *)
firstOf(indices) ==
  IF indices = {} THEN 0 ELSE CHOOSE i \in indices : \A j \in indices : i <= j

removeAt_first(seq, i) == Tail(seq)

(* Array.prototype.splice(i, 1) *)
removeAt(seq, i) == SubSeq(seq, 1, i - 1) \o SubSeq(seq, i + 1, Len(seq))

pushUnique_always(seq, x) == Append(seq, x)

(* if (!player.explored.includes(id)) player.explored.push(id) *)
pushUnique(seq, x) == IF \E i \in DOMAIN seq : seq[i] = x THEN seq ELSE Append(seq, x)

isPassive(entity) ==
  entity.entityClass = "Merchant" \/ entity.entityClass = "TutorialGuide"

(***************************************************************************)
(* look                                                                    *)
(***************************************************************************)
buildLookEvents(st, nodeId) == <<Ev("room_description", nodeId, "", 0)>>

handleLook(st, pid, player) ==
  IF ~hasNode(st, player.location)
  THEN {Result(<<ErrorEv("location_missing")>>, player, st)}
  ELSE {Result(buildLookEvents(st, player.location), player, st)}

(***************************************************************************)
(* move                                                                    *)
(***************************************************************************)
(* Math.random() < hazardLevel * 0.15 *)
trapOutcomes(hazardLevel) ==
  IF hazardLevel * 15 >= 100 THEN {TRUE} ELSE {TRUE, FALSE}

(* the items that are not custom; none carries a rarity, so each weighs 0.1 *)
SpawnableItems == <<[itemId |-> "rock", rarity |-> 0]>>

(* the Sense Danger check on entering a hazardous room *)
senseDanger(player, hazardLevel) ==
  LET level == getSkillLevel(player, "senseDanger")
  IN  UNION {
        IF success
        THEN {[player |-> IF up THEN [player EXCEPT !.skills["senseDanger"] = @ + 1] ELSE player,
               events |-> <<Ev("skill_check", "Sense Danger", "success", 0)>>
                          \o (IF up THEN <<Ev("skill_level_up", "Sense Danger", "", level + 1)>>
                              ELSE <<>>)] : up \in checkSkillLevelUp(level)}
        ELSE {[player |-> player, events |-> <<>>]}
        : success \in checkOutcomes(level, player.stats["wis"], 55 + (hazardLevel * 10))}

(* the trap roll and its damage *)
trap(player, events, hazardLevel) ==
  UNION {
    IF sprung
    THEN {LET hp == Max(0, player.hp - hazardDmg)
              ev == events \o <<Ev("hazard_damage", "", "", hazardDmg)>>
          IN  IF hp <= 0
              THEN [player |-> [player EXCEPT !.hp = hp, !.alive = FALSE],
                    events |-> ev \o <<Ev("player_death", "a hidden trap", "", 0)>>]
              ELSE [player |-> [player EXCEPT !.hp = hp], events |-> ev]
          : hazardDmg \in calculateHazardDamage(hazardLevel)}
    ELSE {[player |-> player, events |-> events]}
    : sprung \in trapOutcomes(hazardLevel)}

scavengeAllowed_always(player) == TRUE

(* if (player.alive): the scavenge roll is made *)
scavengeAllowed(player) == player.alive

(* the scavenge roll: an item may appear in the room entered *)
scavenge(st, player, events, newNodeId) ==
  IF ~scavengeAllowed(player)
  THEN {[player |-> player, events |-> events, st |-> st]}
  ELSE LET level == getSkillLevel(player, "scavenge")
       IN  {[player |-> player, events |-> events, st |-> st]}
           \cup UNION {
             {[player |-> IF up THEN [player EXCEPT !.skills["scavenge"] = @ + 1] ELSE player,
               events |-> events \o <<Ev("item_spawn", newItemId, "", 0)>>
                          \o (IF up THEN <<Ev("skill_level_up", "Scavenge", "", level + 1)>>
                              ELSE <<>>),
               st |-> [st EXCEPT !.nodes[newNodeId].items = Append(@, newItemId)]]
              : up \in checkSkillLevelUp(level)}
             : newItemId \in rollRandomItemByRarity(SpawnableItems) \ {NoId}}

(* k.toUpperCase() of a connection key *)
toUpperCase(d) ==
  CASE d = "n" -> "N" [] d = "s" -> "S" [] d = "e" -> "E" [] d = "w" -> "W"
    [] d = "down" -> "DOWN" [] d = "up" -> "UP" [] OTHER -> d

(* the keys of node.connections in the order of the document *)
ConnectionKeys == <<"n", "s", "e", "w", "down", "up">>

RECURSIVE exitsFrom(_, _)
exitsFrom(connections, keys) ==
  IF keys = <<>> THEN <<>>
  ELSE (IF connections[Head(keys)] # NoId THEN <<toUpperCase(Head(keys))>> ELSE <<>>)
       \o exitsFrom(connections, Tail(keys))

exitNames_every(currentNode) ==
  [i \in DOMAIN ConnectionKeys |-> toUpperCase(ConnectionKeys[i])]

(* Object.entries(connections).filter(([, v]) => v !== null).map(([k]) => k.toUpperCase()) *)
exitNames(currentNode) == exitsFrom(currentNode.connections, ConnectionKeys)

(* `You can't go ${direction || 'that way'}. Exits: ${exits}` *)
NoExitEv(currentNode) == [ErrorEv("no_exit") EXCEPT !.list = exitNames(currentNode)]

handleMove(st, pid, player, intent) ==
  IF ~hasNode(st, player.location)
  THEN {Result(<<ErrorEv("location_missing")>>, player, st)}
  ELSE
  LET currentNode == st.nodes[player.location]
      direction == intent.direction
  IN  IF direction = NoId \/ direction \notin Directions
         \/ currentNode.connections[direction] = NoId
      THEN {Result(<<NoExitEv(currentNode)>>, player, st)}
      ELSE
      LET newNodeId == currentNode.connections[direction]
      IN  IF ~hasNode(st, newNodeId)
          THEN {Result(<<ErrorEv("destination_missing")>>, player, st)}
          ELSE
          LET newNode == st.nodes[newNodeId]
              moved == [player EXCEPT !.location = newNodeId,
                                      !.explored = pushUnique(@, newNodeId)]
              hazards ==
                IF newNode.hazardLevel > 0
                THEN UNION {trap(d.player, d.events, newNode.hazardLevel)
                            : d \in senseDanger(moved, newNode.hazardLevel)}
                ELSE {[player |-> moved, events |-> <<>>]}
          IN  UNION {
                {Result(s.events \o <<Ev("move", newNodeId, direction, 0)>>
                          \o buildLookEvents(s.st, newNodeId),
                        s.player, savePlayer(s.st, pid, s.player))
                 : s \in scavenge(st, h.player, h.events, newNodeId)}
                : h \in hazards}

(***************************************************************************)
(* attack                                                                  *)
(***************************************************************************)
(* the entity the target string resolves to, NoId when it resolves to none: *)
(* an exact id in the room first, else the first entity of the room whose  *)
(* lower-cased name includes the lower-cased target                        *)
findTarget(st, node, target) ==
  LET ents == node.entities
      exact == firstOf({i \in DOMAIN ents : target.present /\ Spell(ents[i]) = target.chars})
      partial == firstOf({i \in DOMAIN ents :
                            /\ hasEntity(st, ents[i])
                            /\ includes(toLowerCase(st.entities[ents[i]].name),
                                        toLowerCase(orEmpty(target)))})
  IN  IF exact # 0 THEN ents[exact]
      ELSE IF partial # 0 THEN ents[partial]
      ELSE NoId

(* what a kill adds: the counter, the XP, the level-ups, the loot, the room list *)
lootOutcomes(st, nodeId, node, entity) ==
  IF entity.lootTableId # NoId /\ hasLootTable(entity.lootTableId)
  THEN {IF hasItemDoc(lootItemId)
        THEN [node |-> [node EXCEPT !.items = Append(@, lootItemId)],
              events |-> <<Ev("loot_dropped", lootItemId, "", 0)>>, written |-> TRUE]
        ELSE [node |-> node, events |-> <<>>, written |-> FALSE]
        : lootItemId \in rollLoot(LootTables[entity.lootTableId])}
  ELSE {[node |-> node, events |-> <<>>, written |-> FALSE]}

leavesRoom_always(entity) == TRUE

(* if (!entity.respawns): the entity leaves the room's list *)
leavesRoom(entity) == ~entity.respawns

killRewards(st, pid, player, nodeId, node, eid, entity, events) ==
  LET xpGained == entity.xpReward
      counted == [player EXCEPT !.statistics.entitiesKilled = @ + 1, !.xp = @ + xpGained]
      lv == checkLevelUp(counted)
      ev == events \o <<Ev("xp_gained", "", "", xpGained)>> \o lv.events
  IN  {LET node1 == IF leavesRoom(entity)
                    THEN [l.node EXCEPT !.entities = SelectSeq(@, LAMBDA e : e # eid)]
                    ELSE l.node
           st1 == IF l.written \/ leavesRoom(entity)
                  THEN [st EXCEPT !.nodes[nodeId] = node1] ELSE st
       IN  [player |-> lv.player, events |-> ev \o l.events,
            st |-> [st1 EXCEPT !.entities[eid] = entity]]
       : l \in lootOutcomes(st, nodeId, node, entity)}

alreadyDead_missingOnly(st, targetEntityId) == ~hasEntity(st, targetEntityId)

(* if (!entity || entity.hp <= 0) *)
alreadyDead(st, targetEntityId) ==
  ~hasEntity(st, targetEntityId) \/ st.entities[targetEntityId].hp <= 0

handleAttack(st, pid, player, intent) ==
  IF ~hasNode(st, player.location)
  THEN {Thrown(player, st)}
  ELSE
  LET nodeId == player.location
      node == st.nodes[nodeId]
      targetEntityId == findTarget(st, node, intent.target)
  IN  IF targetEntityId = NoId
      THEN {Result(<<ErrorEv("no_target")>>, player, st)}
      ELSE IF alreadyDead(st, targetEntityId)
      THEN {Result(<<ErrorEv("already_dead")>>, player, st)}
      ELSE UNION {
        LET after ==
              IF r.entityDead
              THEN killRewards(st, pid, r.player, nodeId, node, targetEntityId, r.entity, r.events)
              ELSE {[player |-> r.player, events |-> r.events,
                     st |-> [st EXCEPT !.entities[targetEntityId] = r.entity]]}
        IN  {LET p1 == IF r.playerDead THEN [a.player EXCEPT !.alive = FALSE] ELSE a.player
             IN  Result(a.events, p1, savePlayer(a.st, pid, p1))
             : a \in after}
        : r \in resolveCombat(player, targetEntityId, st.entities[targetEntityId])}

(***************************************************************************)
(* flee                                                                    *)
(***************************************************************************)
hostileEntities_anyClass(st, node) ==
  SelectSeq(node.entities, LAMBDA eid : hasEntity(st, eid) /\ st.entities[eid].hp > 0)

(* the entities of the room with a document, hp > 0 and a class that is    *)
(* neither Merchant nor TutorialGuide                                      *)
hostileEntities(st, node) ==
  SelectSeq(node.entities,
            LAMBDA eid : /\ hasEntity(st, eid)
                         /\ st.entities[eid].hp > 0
                         /\ ~isPassive(st.entities[eid]))

handleFlee(st, pid, player) ==
  IF ~hasNode(st, player.location)
  THEN {Thrown(player, st)}
  ELSE
  LET node == st.nodes[player.location]
      hostiles == hostileEntities(st, node)
      exits == {d \in Directions : node.connections[d] # NoId}
      fleeLevel == getSkillLevel(player, "flee")
  IN  IF hostiles = <<>>
      THEN {Result(<<ErrorEv("nothing_to_flee")>>, player, st)}
      ELSE IF exits = {}
      THEN {Result(<<ErrorEv("no_exits")>>, player, st)}
      ELSE UNION {
        IF success
        THEN UNION {
               LET p1 == IF up THEN [player EXCEPT !.skills["flee"] = @ + 1] ELSE player
                   ev1 == <<Ev("skill_check", "Flee", "success", 0)>>
                          \o (IF up THEN <<Ev("skill_level_up", "Flee", "", fleeLevel + 1)>>
                              ELSE <<>>)
               IN  {LET targetNodeId == node.connections[direction]
                        p2 == IF hasNode(st, targetNodeId)
                              THEN [p1 EXCEPT !.location = targetNodeId,
                                              !.explored = pushUnique(@, targetNodeId)]
                              ELSE p1
                        ev2 == IF hasNode(st, targetNodeId)
                               THEN ev1 \o <<Ev("move", targetNodeId, direction, 0)>>
                                        \o buildLookEvents(st, targetNodeId)
                               ELSE ev1
                    IN  Result(ev2, p2, savePlayer(st, pid, p2))
                    : direction \in exits}
               : up \in checkSkillLevelUp(fleeLevel)}
        ELSE {LET p1 == IF a.playerDead THEN [a.player EXCEPT !.alive = FALSE] ELSE a.player
              IN  Result(<<Ev("skill_check", "Flee", "fail", 0)>> \o a.events, p1,
                         savePlayer(st, pid, p1))
              : a \in resolveEnemyAttack(player, hostiles[1], st.entities[hostiles[1]])}
        : success \in checkOutcomes(fleeLevel, player.stats["dex"], 70)}

(***************************************************************************)
(* Items: pickup, use, equip, open, inspect.  An inventory entry is the    *)
(* copy of an item document, named here by the document's id.              *)
(***************************************************************************)
searchString(target) == stripSpaces(toLowerCase(orEmpty(target)))

(* objName.includes(searchStr) || objId.includes(searchStr) *)
matchesItem(itemId, searchStr) ==
  \/ includes(stripSpaces(toLowerCase(ItemDocs[itemId].name)), searchStr)
  \/ includes(stripSpaces(toLowerCase(Spell(itemId))), searchStr)

findInventoryItem(player, target) ==
  firstOf({i \in DOMAIN player.inventory :
             matchesItem(player.inventory[i], searchString(target))})

findRoomItem(node, target) ==
  firstOf({i \in DOMAIN node.items :
             \/ (target.present /\ Spell(node.items[i]) = target.chars)
             \/ (hasItemDoc(node.items[i])
                 /\ matchesItem(node.items[i], searchString(target)))})

inventoryFull_never(player, capacity) == FALSE

(* if (player.inventory.length >= capacity) *)
inventoryFull(player, capacity) == Len(player.inventory) >= capacity

(* the error names the capacity: `Inventory full (${capacity} slots). ...` *)
handlePickup(st, pid, player, intent) ==
  LET capacity == getInventoryCapacity(player)
  IN  IF inventoryFull(player, capacity)
      THEN {Result(<<Ev("error", "", "inventory_full", capacity)>>, player, st)}
      ELSE IF ~hasNode(st, player.location)
      THEN {Thrown(player, st)}
      ELSE
      LET nodeId == player.location
          node == st.nodes[nodeId]
          foundIndex == findRoomItem(node, intent.target)
      IN  IF foundIndex = 0
          THEN {Result(<<ErrorEv("no_item")>>, player, st)}
          ELSE
          LET itemId == node.items[foundIndex]
              st1 == [st EXCEPT !.nodes[nodeId].items = removeAt(@, foundIndex)]
              p1 == [player EXCEPT !.inventory = Append(@, itemId)]
          IN  IF ~hasItemDoc(itemId)
              THEN {Thrown(player, st1)}
              ELSE {Result(<<Ev("item_pickup", itemId, "", 0)>>, p1, savePlayer(st1, pid, p1))}

healAmountOf_unclamped(item, player) == item.stats.healAmount

(* Math.min(item.stats.healAmount, player.maxHp - player.hp) *)
healAmountOf(item, player) == Min(item.stats.healAmount, player.maxHp - player.hp)

handleUse(st, pid, player, intent) ==
  LET idx == findInventoryItem(player, intent.target)
  IN  IF idx = 0
      THEN {Result(<<ErrorEv("not_in_inventory")>>, player, st)}
      ELSE
      LET item == ItemDocs[player.inventory[idx]]
      IN  IF item.type # "consumable"
          THEN {Result(<<ErrorEv("not_consumable")>>, player, st)}
          ELSE
          LET healAmount == healAmountOf(item, player)
              healed == IF item.stats.healAmount # 0
                        THEN [player EXCEPT !.hp = @ + healAmount] ELSE player
              ev == IF item.stats.healAmount # 0
                    THEN <<Ev("item_used", player.inventory[idx], "heal", healAmount)>>
                    ELSE <<>>
              p1 == [healed EXCEPT !.inventory = removeAt(@, idx)]
          IN  {Result(ev, p1, savePlayer(st, pid, p1))}

(* if (!item.slot && item.type === 'weapon') item.slot = 'weapon' *)
equipSlot(itemId) ==
  IF ItemDocs[itemId].slot = NoId /\ ItemDocs[itemId].type = "weapon"
  THEN "weapon" ELSE ItemDocs[itemId].slot

returnToInventory_dropped(inventory, currentEquipped) == inventory

(* if (currentEquipped) player.inventory.push(currentEquipped) *)
returnToInventory(inventory, currentEquipped) ==
  IF currentEquipped # NoId THEN Append(inventory, currentEquipped) ELSE inventory

handleEquip(st, pid, player, intent) ==
  LET idx == findInventoryItem(player, intent.target)
  IN  IF idx = 0
      THEN {Result(<<ErrorEv("not_in_inventory")>>, player, st)}
      ELSE
      LET itemId == player.inventory[idx]
          slot == equipSlot(itemId)
      IN  IF slot = NoId
          THEN {Result(<<ErrorEv("cannot_equip")>>, player, st)}
          ELSE
          LET currentEquipped == IF slot \in DOMAIN player.equipment
                                 THEN player.equipment[slot] ELSE NoId
              inv1 == returnToInventory(player.inventory, currentEquipped)
              ev1 == IF currentEquipped # NoId
                     THEN <<Ev("item_unequipped", currentEquipped, slot, 0)>> ELSE <<>>
              p1 == [player EXCEPT
                       !.equipment = [s \in (DOMAIN @) \cup {slot} |->
                                        IF s = slot THEN itemId ELSE @[s]],
                       !.inventory = removeAt(inv1, idx),
                       !.maxHp = calculateMaxHp(player.level, player.stats["con"])]
          IN  {Result(ev1 \o <<Ev("item_equipped", itemId, slot, 0)>>, p1,
                      savePlayer(st, pid, p1))}

(* `lootbox_${box.tier}` *)
lootboxTableId(tier) ==
  CASE tier = "iron" -> "lootbox_iron" [] tier = "bronze" -> "lootbox_bronze"
    [] tier = "silver" -> "lootbox_silver" [] tier = "gold" -> "lootbox_gold"
    [] tier = "tin" -> "lootbox_tin" [] OTHER -> "lootbox_other"

handleOpenLootbox(st, pid, player, intent) ==
  LET idx == firstOf({i \in DOMAIN player.inventory :
                        /\ ItemDocs[player.inventory[i]].type = "lootbox"
                        /\ matchesItem(player.inventory[i], searchString(intent.target))})
  IN  IF idx = 0
      THEN {Result(<<ErrorEv("no_lootbox")>>, player, st)}
      ELSE
      LET boxId == player.inventory[idx]
          box == ItemDocs[boxId]
          lootTableId == lootboxTableId(box.tier)
      IN  IF ~hasLootTable(lootTableId)
          THEN {Result(<<ErrorEv("no_loot_table")>>, player, st)}
          ELSE
          {LET inv0 == removeAt(player.inventory, idx)
               inv1 == IF hasItemDoc(lootItemId) THEN Append(inv0, lootItemId) ELSE inv0
               ev1 == IF hasItemDoc(lootItemId)
                      THEN <<Ev("lootbox_opened", boxId, lootItemId, 0)>> ELSE <<>>
               lootboxXp == lootboxXpReward(box.tier)
               p1 == [player EXCEPT !.inventory = inv1,
                                    !.statistics.lootboxesOpened = @ + 1,
                                    !.xp = @ + lootboxXp]
               lv == checkLevelUp(p1)
           IN  Result(ev1 \o <<Ev("lootbox_xp", box.tier, "", lootboxXp)>> \o lv.events,
                      lv.player, savePlayer(st, pid, lv.player))
           : lootItemId \in rollLoot(LootTables[lootTableId])}

handleInspect(st, pid, player, intent) ==
  IF ~intent.target.present \/ intent.target.chars = <<>>
  THEN {Result(<<ErrorEv("inspect_what")>>, player, st)}
  ELSE IF findInventoryItem(player, intent.target) # 0
  THEN {Result(<<Ev("item_inspected",
                    player.inventory[findInventoryItem(player, intent.target)], "", 0)>>,
               player, st)}
  ELSE IF ~hasNode(st, player.location)
  THEN {Thrown(player, st)}
  ELSE
  LET items == st.nodes[player.location].items
      found == firstOf({i \in DOMAIN items :
                          /\ hasItemDoc(items[i])
                          /\ matchesItem(items[i], searchString(intent.target))})
  IN  IF found = 0
      THEN {Result(<<ErrorEv("no_item")>>, player, st)}
      ELSE {Result(<<Ev("item_inspected", items[found], "", 0)>>, player, st)}

(***************************************************************************)
(* inventory, stats, map, allocate, talk                                   *)
(***************************************************************************)
handleInventory(st, pid, player) ==
  {Result(<<Ev("inventory_list", "", "", Len(player.inventory))>>, player, st)}

handleStats(st, pid, player) ==
  {Result(<<Ev("stats_display", "", "", player.level)>>, player, st)}

handleMap(st, pid, player) ==
  {Result(<<Ev("map_display", "", "", 0)>>, player, st)}

allocateStatPoint_twice(stats, statName) ==
  IF statName \notin STATS
  THEN [success |-> FALSE, stats |-> stats]
  ELSE [success |-> TRUE, stats |-> [stats EXCEPT ![statName] = @ + 2]]

allocateStatPoint(stats, statName) ==
  IF statName \notin STATS
  THEN [success |-> FALSE, stats |-> stats]
  ELSE [success |-> TRUE, stats |-> [stats EXCEPT ![statName] = @ + 1]]

noStatPoints_never(player) == FALSE

(* if (!player.statPointsAvailable || player.statPointsAvailable <= 0) *)
noStatPoints(player) == player.statPointsAvailable <= 0

handleAllocateStat(st, pid, player, intent) ==
  IF noStatPoints(player)
  THEN {Result(<<ErrorEv("no_stat_points")>>, player, st)}
  ELSE
  LET statName == nameOf(intent.target)
      result == allocateStatPoint(player.stats, statName)
  IN  IF ~result.success
      THEN {Result(<<ErrorEv("invalid_stat")>>, player, st)}
      ELSE
      LET p1 == [player EXCEPT
                   !.stats = result.stats,
                   !.statPointsAvailable = @ - 1,
                   !.maxHp = calculateMaxHp(player.level, result.stats["con"])]
      IN  {Result(<<Ev("stat_allocated", statName, "", p1.stats[statName])>>, p1,
                  savePlayer(st, pid, p1))}

handleTalk(st, pid, player, intent) ==
  IF ~hasNode(st, player.location)
  THEN {Thrown(player, st)}
  ELSE
  LET ents == st.nodes[player.location].entities
      found == firstOf({i \in DOMAIN ents :
                          /\ hasEntity(st, ents[i])
                          /\ \/ (intent.target.present /\ Spell(ents[i]) = intent.target.chars)
                             \/ includes(toLowerCase(st.entities[ents[i]].name),
                                         toLowerCase(orEmpty(intent.target)))})
  IN  IF found = 0
      THEN {Result(<<ErrorEv("nobody")>>, player, st)}
      ELSE {Result(<<Ev("talk", ents[found], "", 0)>>, player, st)}

(***************************************************************************)
(* processAction: the dispatch and the mob aggro tick.                     *)
(***************************************************************************)
Intent(action, target, direction) ==
  [action |-> action, target |-> target, direction |-> direction]

dispatchMiss_silent(st, player) == {Result(<<>>, player, st)}

(* default: one error event, the player as loaded *)
dispatchMiss(st, player) == {Result(<<ErrorEv("unknown_action")>>, player, st)}

dispatch(st, pid, player, intent) ==
  CASE intent.action = "move"      -> handleMove(st, pid, player, intent)
    [] intent.action = "look"      -> handleLook(st, pid, player)
    [] intent.action = "attack"    -> handleAttack(st, pid, player, intent)
    [] intent.action = "pickup"    -> handlePickup(st, pid, player, intent)
    [] intent.action = "use"       -> handleUse(st, pid, player, intent)
    [] intent.action = "equip"     -> handleEquip(st, pid, player, intent)
    [] intent.action = "inventory" -> handleInventory(st, pid, player)
    [] intent.action = "stats"     -> handleStats(st, pid, player)
    [] intent.action = "map"       -> handleMap(st, pid, player)
    [] intent.action = "allocate"  -> handleAllocateStat(st, pid, player, intent)
    [] intent.action = "open"      -> handleOpenLootbox(st, pid, player, intent)
    [] intent.action = "inspect"   -> handleInspect(st, pid, player, intent)
    [] intent.action = "talk"      -> handleTalk(st, pid, player, intent)
    [] intent.action = "flee"      -> handleFlee(st, pid, player)
    [] intent.action = "unknown"   -> {Result(<<Ev("unknown_action", "", "", 0)>>, player, st)}
    [] OTHER                       -> dispatchMiss(st, player)

(* result.events.find(e => e.type === 'player_attack').targetId, or null *)
targetedEntity(events) ==
  LET hits == {i \in DOMAIN events : events[i].type = "player_attack"}
  IN  IF hits = {} THEN NoId ELSE events[firstOf(hits)].subject

aggroEligible_anyClass(st, entityId, targetedEntityId) ==
  /\ entityId # targetedEntityId
  /\ hasEntity(st, entityId)
  /\ st.entities[entityId].hp > 0

(* whether the aggro tick lets this entity of the room attack *)
aggroEligible(st, entityId, targetedEntityId) ==
  /\ entityId # targetedEntityId
  /\ hasEntity(st, entityId)
  /\ st.entities[entityId].hp > 0
  /\ ~isPassive(st.entities[entityId])

(* the loop over the room's entities: the outcomes [player, events, attempts] *)
RECURSIVE aggroLoop(_, _, _, _)
aggroLoop(st, player, list, targetedEntityId) ==
  IF list = <<>>
  THEN {[player |-> player, events |-> <<>>, attempts |-> <<>>]}
  ELSE
  LET entityId == Head(list)
  IN  IF ~aggroEligible(st, entityId, targetedEntityId)
      THEN aggroLoop(st, player, Tail(list), targetedEntityId)
      ELSE UNION {
        IF a.playerDead
        THEN {[player |-> [a.player EXCEPT !.alive = FALSE], events |-> a.events,
               attempts |-> <<entityId>>]}
        ELSE {[player |-> r.player, events |-> a.events \o r.events,
               attempts |-> <<entityId>> \o r.attempts]
              : r \in aggroLoop(st, a.player, Tail(list), targetedEntityId)}
        : a \in resolveEnemyAttack(player, entityId, st.entities[entityId])}

aggroSave_skipped(st, pid, a) == st

(* if (playerWasAttacked) await playerState.savePlayer(result.player): one *)
(* write after the loop, of the player as the last attack left it          *)
aggroSave(st, pid, a) ==
  IF a.attempts # <<>> THEN savePlayer(st, pid, a.player) ELSE st

aggroRuns_afterDeath(h, intent) == intent.action # "move"

(* whether the aggro tick runs after the handler *)
aggroRuns(h, intent) == h.player.alive /\ intent.action # "move"

(* The outcomes of one call: events and returned (the result, returned is  *)
(* <<>> for a null player), st (the store afterwards), threw, and what the *)
(* two phases did: handler (the handler's own result) and attempts (the    *)
(* entities that attacked in the aggro tick, in order).                    *)
Outcome(events, returned, st, threw, handler, attempts, ran) ==
  [events |-> events, returned |-> returned, st |-> st, threw |-> threw,
   handler |-> handler, attempts |-> attempts, aggroRan |-> ran]

isDead_never(player) == FALSE

(* if (!player.alive): the call is refused *)
isDead(player) == ~player.alive

processAction(st, pid, intent) ==
  IF pid \notin DOMAIN st.players
  THEN {Outcome(<<ErrorEv("player_not_found")>>, <<>>, st, FALSE, <<>>, <<>>, FALSE)}
  ELSE
  LET player == st.players[pid]
  IN  IF isDead(player)
      THEN {Outcome(<<ErrorEv("dead")>>, <<player>>, st, FALSE, <<>>, <<>>, FALSE)}
      ELSE UNION {
        LET hres == <<[events |-> h.events, player |-> h.player]>>
        IN  IF h.threw
            THEN {Outcome(<<>>, <<>>, h.st, TRUE, <<>>, <<>>, FALSE)}
            ELSE IF aggroRuns(h, intent) /\ hasNode(h.st, h.player.location)
            THEN {Outcome(h.events \o a.events, <<a.player>>,
                          aggroSave(h.st, pid, a),
                          FALSE, hres, a.attempts, TRUE)
                  : a \in aggroLoop(h.st, h.player, h.st.nodes[h.player.location].entities,
                                    targetedEntity(h.events))}
            ELSE {Outcome(h.events, <<h.player>>, h.st, FALSE, hres, <<>>, FALSE)}
        : h \in dispatch(st, pid, player, intent)}

(***************************************************************************)
(* runPipeline: the engine call and what the showrunner's answers change.  *)
(* The answers of the language model are inputs: an achievement (with its  *)
(* tier) or none, a bonus XP amount or none.                               *)
(***************************************************************************)
RECURSIVE anyTypeIn(_, _)
anyTypeIn(events, types) ==
  IF events = <<>> THEN FALSE
  ELSE Head(events).type \in types \/ anyTypeIn(Tail(events), types)

RECURSIVE allTypesIn(_, _)
allTypesIn(events, types) ==
  IF events = <<>> THEN TRUE
  ELSE Head(events).type \in types /\ allTypesIn(Tail(events), types)

AchievementTiers == {"iron", "gold"}
BonusAmounts == {50}

(* checkAchievement: null, or an achievement of some tier *)
checkAchievement(events) ==
  IF ~anyTypeIn(events, {"entity_killed", "player_death", "lootbox_opened",
                         "hazard_damage", "level_up", "item_pickup"})
  THEN {NoId}
  ELSE {NoId} \cup AchievementTiers

(* evaluateBonusXp: null (0), or an amount clamped to 1..50 *)
evaluateBonusXp(events) ==
  IF allTypesIn(events, {"room_description", "inventory_list", "stats_display", "error"})
  THEN {0}
  ELSE {0} \cup {Min(50, Max(1, amount)) : amount \in BonusAmounts}

(* `${achievement.tier.toLowerCase()}_lootbox` *)
achievementBoxId(tier) ==
  CASE tier = "iron" -> "iron_lootbox" [] tier = "bronze" -> "bronze_lootbox"
    [] tier = "silver" -> "silver_lootbox" [] tier = "gold" -> "gold_lootbox"
    [] OTHER -> "other_lootbox"

applyAchievement(player, events, achievement) ==
  IF achievement = NoId
  THEN [player |-> player, events |-> events]
  ELSE LET boxId == achievementBoxId(achievement)
           p1 == [player EXCEPT !.achievements = @ + 1]
       IN  IF hasItemDoc(boxId)
           THEN [player |-> [p1 EXCEPT !.inventory = Append(@, boxId)],
                 events |-> events \o <<Ev("item_pickup", boxId, "", 0)>>]
           ELSE [player |-> p1, events |-> events]

applyBonusXp(player, events, amount) ==
  IF amount = 0
  THEN [player |-> player, events |-> events]
  ELSE LET lv == checkLevelUp([player EXCEPT !.xp = @ + amount])
       IN  [player |-> lv.player,
            events |-> events \o <<Ev("bonus_xp", "", "", amount)>> \o lv.events]

runPipeline(st, pid, intent) ==
  IF pid \notin DOMAIN st.players
  THEN {Outcome(<<>>, <<>>, st, FALSE, <<>>, <<>>, FALSE)}
  ELSE UNION {
    IF r.threw \/ r.returned = <<>>
    THEN {r}
    ELSE UNION {
           {LET a == applyAchievement(r.returned[1], r.events, achievement)
                b == applyBonusXp(a.player, a.events, bonusXp)
            IN  [r EXCEPT !.events = b.events,
                          !.returned = <<b.player>>,
                          !.st = IF achievement # NoId \/ bonusXp # 0
                                 THEN savePlayer(r.st, pid, b.player) ELSE r.st]
            : bonusXp \in evaluateBonusXp(r.events)}
           : achievement \in checkAchievement(r.events)}
    : r \in processAction(st, pid, intent)}

(***************************************************************************)
(* The state machine.                                                      *)
(***************************************************************************)
PlayerIds == {"p1"}

store == [players |-> players, nodes |-> nodes, entities |-> entities]

Init ==
  /\ players = [pid \in PlayerIds |-> createPlayer(createStartingStats, <<>>)]
  /\ nodes = SeedNodes
  /\ entities = SeedEntities
  /\ turns = 0

(* the intents the interpreter hands to the engine *)
AttackTargets ==
  {NoTarget, Target(<<>>), Target(Spell("ogre")), Target(<<"R", "A", "T">>), Target(<<"z">>)}
ItemTargets == {NoTarget, Target(<<"t", "o", "n">>), Target(<<"P", "i", "p", "e">>)}
BoxTargets == {Target(<<"b", "o", "x">>), Target(<<"z">>)}
TalkTargets == {Target(Spell("bob")), Target(<<"z">>)}
StatTargets == {Target(Spell("con")), Target(<<"l", "u", "c", "k">>)}
MoveDirections == {"n", "s", "down", "e", "x", NoId}

MoveIntents == {Intent("move", NoTarget, d) : d \in MoveDirections}
AttackIntents == {Intent("attack", t, NoId) : t \in AttackTargets}
PickupIntents == {Intent("pickup", t, NoId) : t \in ItemTargets}
UseIntents == {Intent("use", t, NoId) : t \in ItemTargets}
EquipIntents == {Intent("equip", t, NoId) : t \in ItemTargets}
AllocateIntents == {Intent("allocate", t, NoId) : t \in StatTargets}
OpenIntents == {Intent("open", t, NoId) : t \in BoxTargets}
InspectIntents == {Intent("inspect", t, NoId) : t \in BoxTargets}
TalkIntents == {Intent("talk", t, NoId) : t \in TalkTargets}
PlainIntents ==
  {Intent(a, NoTarget, NoId) : a \in {"look", "inventory", "stats", "map", "flee", "unknown", "dance"}}

Intents ==
  MoveIntents \cup AttackIntents \cup PickupIntents \cup UseIntents \cup EquipIntents
  \cup AllocateIntents \cup OpenIntents \cup InspectIntents \cup TalkIntents \cup PlainIntents

(* the caps on what chance and the showrunner may add in one run *)
skillUps(player) ==
  getSkillLevel(player, "dodge") + getSkillLevel(player, "flee")
  + getSkillLevel(player, "senseDanger") + getSkillLevel(player, "scavenge") - 4

Bounded(st) ==
  \A pid \in DOMAIN st.players :
    /\ st.players[pid].achievements <= MaxAchievements
    /\ skillUps(st.players[pid]) <= MaxSkillUps

(* one turn: runPipeline(pid, the text parsed to intent) *)
Turn(pid, intent) ==
  \E o \in runPipeline(store, pid, intent) :
    /\ Bounded(o.st)
    /\ players' = o.st.players
    /\ nodes' = o.st.nodes
    /\ entities' = o.st.entities
    /\ turns' = turns + 1

(* the model follows every run of at most MaxTurns turns *)
Running == turns < MaxTurns

Move == Running /\ \E pid \in PlayerIds, i \in MoveIntents : Turn(pid, i)
Look == Running /\ \E pid \in PlayerIds : Turn(pid, Intent("look", NoTarget, NoId))
Attack == Running /\ \E pid \in PlayerIds, i \in AttackIntents : Turn(pid, i)
Pickup == Running /\ \E pid \in PlayerIds, i \in PickupIntents : Turn(pid, i)
Use == Running /\ \E pid \in PlayerIds, i \in UseIntents : Turn(pid, i)
Equip == Running /\ \E pid \in PlayerIds, i \in EquipIntents : Turn(pid, i)
Inventory == Running /\ \E pid \in PlayerIds : Turn(pid, Intent("inventory", NoTarget, NoId))
Stats == Running /\ \E pid \in PlayerIds : Turn(pid, Intent("stats", NoTarget, NoId))
Map == Running /\ \E pid \in PlayerIds : Turn(pid, Intent("map", NoTarget, NoId))
Allocate == Running /\ \E pid \in PlayerIds, i \in AllocateIntents : Turn(pid, i)
Open == Running /\ \E pid \in PlayerIds, i \in OpenIntents : Turn(pid, i)
Inspect == Running /\ \E pid \in PlayerIds, i \in InspectIntents : Turn(pid, i)
Talk == Running /\ \E pid \in PlayerIds, i \in TalkIntents : Turn(pid, i)
Flee == Running /\ \E pid \in PlayerIds : Turn(pid, Intent("flee", NoTarget, NoId))
Unknown == Running /\ \E pid \in PlayerIds : Turn(pid, Intent("unknown", NoTarget, NoId))
Other == Running /\ \E pid \in PlayerIds : Turn(pid, Intent("dance", NoTarget, NoId))

Next ==
  \/ Move \/ Look \/ Attack \/ Pickup \/ Use \/ Equip \/ Inventory \/ Stats \/ Map
  \/ Allocate \/ Open \/ Inspect \/ Talk \/ Flee \/ Unknown \/ Other

Spec == Init /\ [][Next]_vars

(***************************************************************************)
(* A storeroom run: the start room holds as many rocks as a default        *)
(* inventory has slots, and nothing hostile.  The turns are the inventory  *)
(* actions.                                                                *)
(***************************************************************************)
MaxPackTurns == 10

PackNodes ==
  [SeedNodes EXCEPT !["plaza"] =
     Node(<<"bob">>, [i \in 1..BASE_INVENTORY_SLOTS |-> "rock"], 0, [n |-> "alley"])]

PackInit ==
  /\ players = [pid \in PlayerIds |-> createPlayer(createStartingStats, <<>>)]
  /\ nodes = PackNodes
  /\ entities = SeedEntities
  /\ turns = 0

Packing == turns < MaxPackTurns

PackPickup ==
  Packing /\ \E pid \in PlayerIds : Turn(pid, Intent("pickup", Target(Spell("rock")), NoId))
PackUse ==
  Packing /\ \E pid \in PlayerIds : Turn(pid, Intent("use", Target(Spell("rock")), NoId))
PackEquip ==
  Packing /\ \E pid \in PlayerIds : Turn(pid, Intent("equip", Target(Spell("rock")), NoId))
PackOpen ==
  Packing /\ \E pid \in PlayerIds : Turn(pid, Intent("open", Target(<<"b", "o", "x">>), NoId))

NextPack == PackPickup \/ PackUse \/ PackEquip \/ PackOpen

SpecPack == PackInit /\ [][NextPack]_vars

(***************************************************************************)
(* An armoury run: the start room holds two weapons, a cap, a ring and a   *)
(* rock, and nothing hostile.  The turns are pickup and equip.             *)
(***************************************************************************)
MaxGearTurns == 3

GearNodes ==
  [SeedNodes EXCEPT !["plaza"] =
     Node(<<"bob">>, <<"pipe", "bat", "cap", "ring", "rock">>, 0, [n |-> "alley"])]

GearTargets == {Target(Spell(i)) : i \in {"pipe", "bat", "cap", "ring", "rock"}}
GearPickupIntents == {Intent("pickup", t, NoId) : t \in GearTargets}
GearEquipIntents == {Intent("equip", t, NoId) : t \in GearTargets \cup {NoTarget, Target(<<"z">>)}}

GearInit ==
  /\ players = [pid \in PlayerIds |-> createPlayer(createStartingStats, <<>>)]
  /\ nodes = GearNodes
  /\ entities = SeedEntities
  /\ turns = 0

Gearing == turns < MaxGearTurns

GearPickup == Gearing /\ \E pid \in PlayerIds, i \in GearPickupIntents : Turn(pid, i)
GearEquip == Gearing /\ \E pid \in PlayerIds, i \in GearEquipIntents : Turn(pid, i)

NextGear == GearPickup \/ GearEquip

SpecGear == GearInit /\ [][NextGear]_vars

(***************************************************************************)
(* A vault run: the start room holds four loot boxes, an iron one, a gold  *)
(* one, a tin one whose table rolls an item with no document, and a bronze *)
(* one whose tier has no loot table.  The turns are pickup and open.       *)
(***************************************************************************)
MaxLootTurns == 3

LootNodes ==
  [SeedNodes EXCEPT !["plaza"] =
     Node(<<"bob">>, <<"bronze_lootbox", "gold_chest", "tin_lootbox", "iron_lootbox">>,
          0, [n |-> "alley"])]

LootTargets ==
  {Target(<<"g", "o", "l", "d">>), Target(<<"T", "i", "n">>),
   Target(<<"b", "r", "o", "n", "z", "e">>), Target(<<"i", "r", "o", "n">>),
   Target(<<"b", "o", "x">>)}
LootPickupIntents == {Intent("pickup", t, NoId) : t \in LootTargets}
LootOpenIntents ==
  {Intent("open", t, NoId) : t \in LootTargets \cup {NoTarget, Target(<<"z">>)}}

LootInit ==
  /\ players = [pid \in PlayerIds |-> createPlayer(createStartingStats, <<>>)]
  /\ nodes = LootNodes
  /\ entities = SeedEntities
  /\ turns = 0

Looting == turns < MaxLootTurns

LootPickup == Looting /\ \E pid \in PlayerIds, i \in LootPickupIntents : Turn(pid, i)
LootOpen == Looting /\ \E pid \in PlayerIds, i \in LootOpenIntents : Turn(pid, i)

NextLoot == LootPickup \/ LootOpen

SpecLoot == LootInit /\ [][NextLoot]_vars

(***************************************************************************)
(* A parlour run: the start room holds the rat, which stays in the room's  *)
(* list when killed, and the merchant.  The turns are attack and talk.     *)
(***************************************************************************)
MaxTalkTurns == 3

ParlourNodes ==
  [SeedNodes EXCEPT !["plaza"] = Node(<<"rat", "bob">>, <<>>, 0, [n |-> "alley"])]

ParlourInit ==
  /\ players = [pid \in PlayerIds |-> createPlayer(createStartingStats, <<>>)]
  /\ nodes = ParlourNodes
  /\ entities = SeedEntities
  /\ turns = 0

Chatting == turns < MaxTalkTurns

ParlourAttack ==
  Chatting /\ \E pid \in PlayerIds : Turn(pid, Intent("attack", Target(Spell("rat")), NoId))
ParlourTalk ==
  Chatting /\ \E pid \in PlayerIds, t \in {Target(Spell("rat")), Target(Spell("bob")), Target(<<"z">>)} :
    Turn(pid, Intent("talk", t, NoId))

NextParlour == ParlourAttack \/ ParlourTalk

SpecParlour == ParlourInit /\ [][NextParlour]_vars

(***************************************************************************)
(* A run in a store that holds no document for the start room: the player  *)
(* is created at STARTING_NODE whether or not the room exists.  The turns  *)
(* are the six actions that read the player's room.                        *)
(***************************************************************************)
MaxLostTurns == 4

LostNodes == [id \in NodeIds \ {STARTING_NODE} |-> SeedNodes[id]]

LostIntents ==
  {Intent("look", NoTarget, NoId), Intent("flee", NoTarget, NoId)}
  \cup {Intent("move", NoTarget, d) : d \in {"n", NoId}}
  \cup {Intent(a, t, NoId) : a \in {"attack", "pickup", "talk"},
                             t \in {NoTarget, Target(Spell("rat"))}}

(* the stats the onboarding hands to createPlayer: each in STAT_MIN..STAT_MAX, *)
(* STAT_TOTAL in all                                                           *)
STAT_TOTAL == 63
STAT_MIN == 7
STAT_MAX == 13

LostStats ==
  {stats \in {[createStartingStats EXCEPT !["str"] = str, !["con"] = con, !["cha"] = cha] :
                str \in STAT_MIN..STAT_MAX, con \in STAT_MIN..STAT_MAX,
                cha \in STAT_MIN..STAT_MAX} :
     stats["str"] + stats["dex"] + stats["con"] + stats["int"] + stats["wis"] + stats["cha"]
       = STAT_TOTAL}

LostInit ==
  /\ players \in [PlayerIds -> {createPlayer(stats, <<>>) : stats \in LostStats}]
  /\ nodes = LostNodes
  /\ entities = SeedEntities
  /\ turns = 0

Wandering == turns < MaxLostTurns

LostOf(action) == {i \in LostIntents : i.action = action}

LostLook == Wandering /\ \E pid \in PlayerIds, i \in LostOf("look") : Turn(pid, i)
LostMove == Wandering /\ \E pid \in PlayerIds, i \in LostOf("move") : Turn(pid, i)
LostAttack == Wandering /\ \E pid \in PlayerIds, i \in LostOf("attack") : Turn(pid, i)
LostPickup == Wandering /\ \E pid \in PlayerIds, i \in LostOf("pickup") : Turn(pid, i)
LostTalk == Wandering /\ \E pid \in PlayerIds, i \in LostOf("talk") : Turn(pid, i)
LostFlee == Wandering /\ \E pid \in PlayerIds, i \in LostOf("flee") : Turn(pid, i)

NextLost == LostLook \/ LostMove \/ LostAttack \/ LostPickup \/ LostTalk \/ LostFlee

SpecLost == LostInit /\ [][NextLost]_vars

(***************************************************************************)
(* The combat resolver on its own: resolveCombat(player, entity) and       *)
(* resolveEnemyAttack(player, entity) applied to a player and an entity    *)
(* drawn from bounded ranges; players[pid] and entities[DuelFoe] are the   *)
(* two objects the calls mutate.                                           *)
(***************************************************************************)
MaxRounds == 2

DuelFoe == "rat"

DuelPlayers ==
  {[createPlayer([createStartingStats EXCEPT !["str"] = str], <<>>)
      EXCEPT !.equipment["weapon"] = weapon, !.equipment["head"] = head,
             !.skills["improvise"] = improvise, !.skills["dodge"] = dodge, !.hp = hp] :
     str \in {7, 10, 13}, weapon \in {NoId, "pipe", "bat"}, head \in {NoId, "cap"},
     improvise \in {1, 2, 5}, dodge \in {1, MAX_SKILL_LEVEL}, hp \in {1, 30}}

DuelFoes ==
  {[SeedEntities[DuelFoe] EXCEPT !.hp = hp, !.maxHp = 5, !.attack = attack,
                                 !.defense = defense] :
     hp \in {1, 2, 5}, attack \in {0, 2, 40}, defense \in {0, 2, 6}}

DuelInit ==
  /\ players \in [PlayerIds -> DuelPlayers]
  /\ nodes = SeedNodes
  /\ entities \in {[SeedEntities EXCEPT ![DuelFoe] = foe] : foe \in DuelFoes}
  /\ turns = 0

Duelling(pid) ==
  turns < MaxRounds /\ players[pid].hp > 0 /\ entities[DuelFoe].hp > 0

DuelRound ==
  \E pid \in PlayerIds :
    /\ Duelling(pid)
    /\ \E r \in resolveCombat(players[pid], DuelFoe, entities[DuelFoe]) :
         /\ players' = [players EXCEPT ![pid] = r.player]
         /\ entities' = [entities EXCEPT ![DuelFoe] = r.entity]
    /\ turns' = turns + 1
    /\ UNCHANGED nodes

DuelAmbush ==
  \E pid \in PlayerIds :
    /\ Duelling(pid)
    /\ \E r \in resolveEnemyAttack(players[pid], DuelFoe, entities[DuelFoe]) :
         players' = [players EXCEPT ![pid] = r.player]
    /\ turns' = turns + 1
    /\ UNCHANGED <<nodes, entities>>

NextDuel == DuelRound \/ DuelAmbush

SpecDuel == DuelInit /\ [][NextDuel]_vars

(***************************************************************************)
(* The skill check on its own: rollDodge(player, entity) calls             *)
(* rollSkillCheck(dodgeLevel, player.stats.dex, 65 + floor(attack / 2)),   *)
(* with the dodge level, the dex and the attack drawn from ranges wide     *)
(* enough for the threshold to meet both ends of its clamp.                *)
(***************************************************************************)
MaxChecks == 2

CheckPlayers ==
  {[createPlayer([createStartingStats EXCEPT !["dex"] = dex], <<>>)
      EXCEPT !.skills["dodge"] = dodge] :
     dex \in {1, 7, 10, 13, 20, 31}, dodge \in 1..MAX_SKILL_LEVEL}

CheckFoes ==
  {[SeedEntities[DuelFoe] EXCEPT !.attack = attack] : attack \in {0, 1, 9, 40, 61, 200}}

CheckInit ==
  /\ players \in [PlayerIds -> CheckPlayers]
  /\ nodes = SeedNodes
  /\ entities \in {[SeedEntities EXCEPT ![DuelFoe] = foe] : foe \in CheckFoes}
  /\ turns = 0

CheckDodge ==
  /\ turns < MaxChecks
  /\ \E pid \in PlayerIds : \E d \in rollDodge(players[pid], DuelFoe, entities[DuelFoe]) :
       players' = [players EXCEPT ![pid] = d.player]
  /\ turns' = turns + 1
  /\ UNCHANGED <<nodes, entities>>

SpecCheck == CheckInit /\ [][CheckDodge]_vars

(***************************************************************************)
(* Seasoned players: processAction for players whose four trained skills   *)
(* stand at the first level, just below the cap or at the cap.  The turns  *)
(* are the actions that roll a skill: move, flee, attack and look (whose   *)
(* aggro tick rolls the dodge).                                            *)
(***************************************************************************)
MaxSkillTurns == 1

SkillLevels == {1, MAX_SKILL_LEVEL - 1, MAX_SKILL_LEVEL}

SkilledPlayers ==
  {[createPlayer(createStartingStats, <<>>)
      EXCEPT !.skills["dodge"] = dodgeLevel, !.skills["flee"] = fleeLevel,
             !.skills["senseDanger"] = senseDangerLevel,
             !.skills["scavenge"] = scavengeLevel] :
     dodgeLevel \in SkillLevels, fleeLevel \in SkillLevels,
     senseDangerLevel \in SkillLevels, scavengeLevel \in SkillLevels}

SkillIntents ==
  {Intent("move", NoTarget, "n"), Intent("flee", NoTarget, NoId),
   Intent("attack", Target(Spell("ogre")), NoId), Intent("look", NoTarget, NoId)}

SkillInit ==
  /\ players \in [PlayerIds -> SkilledPlayers]
  /\ nodes = SeedNodes
  /\ entities = SeedEntities
  /\ turns = 0

(* one call of processAction *)
Act(pid, intent) ==
  \E o \in processAction(store, pid, intent) :
    /\ players' = o.st.players
    /\ nodes' = o.st.nodes
    /\ entities' = o.st.entities
    /\ turns' = turns + 1

Training == turns < MaxSkillTurns

SkillMove == Training /\ \E pid \in PlayerIds : Act(pid, Intent("move", NoTarget, "n"))
SkillFlee == Training /\ \E pid \in PlayerIds : Act(pid, Intent("flee", NoTarget, NoId))
SkillAttack ==
  Training /\ \E pid \in PlayerIds : Act(pid, Intent("attack", Target(Spell("ogre")), NoId))
SkillLook == Training /\ \E pid \in PlayerIds : Act(pid, Intent("look", NoTarget, NoId))

NextSkill == SkillMove \/ SkillFlee \/ SkillAttack \/ SkillLook

SpecSkill == SkillInit /\ [][NextSkill]_vars

(***************************************************************************)
(* The event log on its own: addEvent(player, event) applied to a player   *)
(* whose log already holds the entries of earlier calls.  The engine       *)
(* operators above leave the log out; here the player record carries it.   *)
(* Date.now() is a clock that has moved on by one tick at every call.      *)
(***************************************************************************)
MaxLogged == 4
MaxPastEvents == 22
LOG_KEPT == 20

keepLast_first(log) == IF Len(log) > LOG_KEPT THEN SubSeq(log, 1, LOG_KEPT) ELSE log

(* if (player.eventLog.length > 20) player.eventLog = player.eventLog.slice(-20) *)
keepLast(log) ==
  IF Len(log) > LOG_KEPT THEN SubSeq(log, Len(log) - LOG_KEPT + 1, Len(log)) ELSE log

addEvent(player, event, now) ==
  [player EXCEPT !.eventLog = keepLast(Append(@, [type |-> event, timestamp |-> now]))]

(* the reading of the clock at the next call *)
clockAfter(log) == IF log = <<>> THEN 1 ELSE log[Len(log)].timestamp + 1

(* the log after n calls that each added a move *)
RECURSIVE logAfter(_)
logAfter(n) ==
  IF n = 0 THEN <<>>
  ELSE keepLast(Append(logAfter(n - 1), [type |-> "move", timestamp |-> n]))

LoggedEvents == {"move", "combat"}

LogInit ==
  /\ players \in [PlayerIds -> {createPlayer(createStartingStats, <<>>)
                                  @@ [eventLog |-> logAfter(n)] : n \in 0..MaxPastEvents}]
  /\ nodes = SeedNodes
  /\ entities = SeedEntities
  /\ turns = 0

AddEvent ==
  /\ turns < MaxLogged
  /\ \E pid \in PlayerIds, event \in LoggedEvents :
       players' = [players EXCEPT
                     ![pid] = addEvent(@, event, clockAfter(players[pid].eventLog))]
  /\ turns' = turns + 1
  /\ UNCHANGED <<nodes, entities>>

SpecLog == LogInit /\ [][AddEvent]_vars

(***************************************************************************)
(* An XP award on its own: player.xp += amount; checkLevelUp(player), as   *)
(* the kill, the loot box and the bonus XP do it, from every level and xp  *)
(* a player can stand at.                                                  *)
(***************************************************************************)
MaxStartLevel == 3
MaxAwards == 1

StartXp(level) == {0, 5, 50, 95, xpToNextLevel(level) - 5}
StartCon == {8, 10, 13}
XpAwards == {10, 100, 200, 300, 600}

(* a player created with this con who has reached this level and xp *)
playerAt(level, xp, con, hurt) ==
  LET born == createPlayer([createStartingStats EXCEPT !["con"] = con], <<>>)
  IN  [born EXCEPT !.level = level, !.xp = xp,
                   !.statPointsAvailable = STAT_POINTS_PER_LEVEL * (level - 1),
                   !.maxHp = calculateMaxHp(level, con),
                   !.hp = IF hurt THEN 1 ELSE calculateMaxHp(level, con)]

awardXp(player, amount) == checkLevelUp([player EXCEPT !.xp = @ + amount])

LevelInit ==
  /\ \E level \in 1..MaxStartLevel, con \in StartCon, hurt \in BOOLEAN :
       \E xp \in StartXp(level) :
         players = [pid \in PlayerIds |-> playerAt(level, xp, con, hurt)]
  /\ nodes = SeedNodes
  /\ entities = SeedEntities
  /\ turns = 0

AwardXp ==
  /\ turns < MaxAwards
  /\ \E pid \in PlayerIds, amount \in XpAwards :
       players' = [players EXCEPT ![pid] = awardXp(@, amount).player]
  /\ turns' = turns + 1
  /\ UNCHANGED <<nodes, entities>>

NextLevel == AwardXp

SpecLevel == LevelInit /\ [][NextLevel]_vars

(***************************************************************************)
(* Properties.  A property of one call is stated over every outcome the    *)
(* call can have at the current store, for every intent of Intents.        *)
(***************************************************************************)
Range(seq) == {seq[i] : i \in DOMAIN seq}

isPrefix(a, b) == Len(a) <= Len(b) /\ SubSeq(b, 1, Len(a)) = a

(* the XP a player has earned in all: xp plus the thresholds of the levels left *)
totalXp(player) == player.xp + (50 * player.level * (player.level - 1))

(* the entities of the room that are due an attack in the aggro tick, in room order *)
dueInRoom(st, location, events) ==
  SelectSeq(st.nodes[location].entities,
            LAMBDA e : /\ e \in DOMAIN st.entities
                       /\ st.entities[e].hp > 0
                       /\ st.entities[e].entityClass \notin {"Merchant", "TutorialGuide"}
                       /\ \A i \in DOMAIN events :
                            events[i].type = "player_attack" => events[i].subject # e)

(* an event of an entity's attack on the player: the hit, or the dodge of it *)
isEntityAttack(e) ==
  e.type = "entity_attack" \/ (e.type = "skill_check" /\ e.subject = "Dodge")

(* C1: for every intent, processAction on a stored player whose alive flag *)
(* is false returns exactly one event, of type error, and writes no        *)
(* player, room or entity document: the store after the call is the store  *)
(* before it, so no later call changes a dead player's document.           *)
C1_DeadPlayerRefused ==
  \A pid \in PlayerIds : \A intent \in Intents :
    ~players[pid].alive =>
      \A o \in processAction(store, pid, intent) :
        /\ ~o.threw
        /\ Len(o.events) = 1
        /\ o.events[1].type = "error"
        /\ o.st = store

C1_Witness ==
  \E pid \in PlayerIds :
    /\ ~players[pid].alive
    /\ \E intent \in AttackIntents : \E o \in processAction(store, pid, intent) :
         o.events = <<ErrorEv("dead")>> /\ o.st = store

(* C2: in every player state persisted at the end of a turn, alive is      *)
(* false if and only if hp is 0, the turns in which the pipeline applies   *)
(* bonus XP and runs checkLevelUp included.                                *)
C2_DeadIffNoHp ==
  \A pid \in PlayerIds : (~players[pid].alive) <=> (players[pid].hp = 0)

(* C3: after any sequence of turns from createPlayer the persisted hp      *)
(* satisfies 0 <= hp <= maxHp.                                             *)
C3_HpWithinBounds ==
  \A pid \in PlayerIds : 0 <= players[pid].hp /\ players[pid].hp <= players[pid].maxHp

C3_Witness ==
  \E pid \in PlayerIds :
    /\ players[pid].level > 1
    /\ 0 < players[pid].hp /\ players[pid].hp < players[pid].maxHp
    /\ \E intent \in UseIntents : \E o \in processAction(store, pid, intent) :
         /\ hasType(o.events, "item_used")
         /\ o.handler[1].player.hp = players[pid].maxHp

(* C4: at the end of every turn the inventory length is at most            *)
(* inventoryCapacity(str) = 10 + floor((str-10)/2), for every sequence of  *)
(* pickup, equip, use, open and achievement rewards.                       *)
C4_InventoryWithinCapacity ==
  \A pid \in PlayerIds :
    Len(players[pid].inventory) <= 10 + ((players[pid].stats["str"] - 10) \div 2)

(* the attack intent resolves, in the player's room, to an entity with hp <= 0 *)
attacksCorpse(pid, intent) ==
  /\ players[pid].alive
  /\ players[pid].location \in DOMAIN nodes
  /\ \E e \in Range(nodes[players[pid].location].entities) :
       /\ e = findTarget(store, nodes[players[pid].location], intent.target)
       /\ e \in DOMAIN entities
       /\ entities[e].hp <= 0

(* C5, as amended: an attack whose resolved target entity has hp <= 0      *)
(* makes the handler return one error event and change nothing; by the end *)
(* of processAction the room documents and the entity documents are        *)
(* unchanged, and the player document is unchanged unless another entity   *)
(* of the room attacked in the aggro tick, which changes hp, alive and     *)
(* skills only.                                                            *)
C5_CorpseAttackLeavesAggroOnly ==
  \A pid \in PlayerIds : \A intent \in AttackIntents :
    attacksCorpse(pid, intent) =>
      \A o \in processAction(store, pid, intent) :
        /\ o.handler = <<[events |-> <<ErrorEv("already_dead")>>, player |-> players[pid]]>>
        /\ o.st.nodes = nodes
        /\ o.st.entities = entities
        /\ o.attempts = <<>> => o.st.players = players
        /\ [o.st.players[pid] EXCEPT !.hp = players[pid].hp,
                                     !.alive = players[pid].alive,
                                     !.skills = players[pid].skills] = players[pid]

C5_Witness ==
  \E pid \in PlayerIds : \E intent \in AttackIntents :
    /\ attacksCorpse(pid, intent)
    /\ \E o \in processAction(store, pid, intent) :
         /\ o.handler[1].events = <<ErrorEv("already_dead")>>
         /\ o.attempts # <<>>
         /\ o.st.players[pid].hp < players[pid].hp

(* C5 as stated: after such an attack the room document, the entity        *)
(* documents and the player document (hp included) are unchanged by the    *)
(* end of processAction, whatever other entities are in the room.          *)
C5_CorpseAttackChangesNothing ==
  \A pid \in PlayerIds : \A intent \in AttackIntents :
    attacksCorpse(pid, intent) =>
      \A o \in processAction(store, pid, intent) :
        hasType(o.events, "error") /\ o.st = store

(* C6: after a non-move action that leaves the player alive, the entities  *)
(* of the player's room that have hp > 0, are not Merchant or              *)
(* TutorialGuide and are not the target of this turn's player_attack each  *)
(* make one attack attempt, in room order, while the player is alive: the  *)
(* attempts of the aggro tick are those entities in order, cut after the   *)
(* attempt that killed the player; no other entity makes one.              *)
C6_AggroOncePerHostileInOrder ==
  \A pid \in PlayerIds : \A intent \in Intents \ MoveIntents :
    \A o \in processAction(store, pid, intent) :
      (/\ o.handler # <<>>
       /\ o.handler[1].player.alive
       /\ o.handler[1].player.location \in DOMAIN o.st.nodes) =>
        LET due == dueInRoom(o.st, o.handler[1].player.location, o.handler[1].events)
        IN  /\ isPrefix(o.attempts, due)
            /\ o.returned[1].alive => o.attempts = due
            /\ ~o.returned[1].alive => o.attempts # <<>>

C6_Witness ==
  \E pid \in PlayerIds : \E o \in processAction(store, pid, Intent("attack", Target(Spell("ogre")), NoId)) :
    /\ o.handler # <<>>
    /\ hasType(o.handler[1].events, "player_attack")
    /\ o.returned[1].alive
    /\ o.attempts = <<"rat">>
    /\ nodes[players[pid].location].entities = <<"rat", "ogre", "bob">>
    /\ entities["ogre"].hp = 1

(* C7: once the player's hp reaches 0 in a turn no further entity attack   *)
(* is resolved in it: no entity_attack event and no Dodge skill_check      *)
(* event follows the player_death event, and the aggro tick makes no       *)
(* attempt in a move turn or when the handler returned a dead player.      *)
C7_NoAttackAfterDeath ==
  \A pid \in PlayerIds : \A intent \in Intents :
    \A o \in processAction(store, pid, intent) :
      /\ \A i, j \in DOMAIN o.events :
           (i < j /\ o.events[i].type = "player_death") => ~isEntityAttack(o.events[j])
      /\ (intent.action = "move" \/ (o.handler # <<>> /\ ~o.handler[1].player.alive)) =>
           (o.attempts = <<>> /\ ~o.aggroRan)

C7_Witness ==
  \E pid \in PlayerIds : \E intent \in Intents \ MoveIntents :
    \E o \in processAction(store, pid, intent) :
      /\ o.handler # <<>>
      /\ o.handler[1].player.alive
      /\ ~o.returned[1].alive
      /\ o.events[Len(o.events)].type = "player_death"
      /\ Len(o.attempts) < Len(dueInRoom(o.st, o.returned[1].location, o.handler[1].events))

(* C8: checkLevelUp repeats while xp >= 100*level.  For a player at level  *)
(* L with xp X it ends with xp < 100*level, conserves the total XP, adds 2 *)
(* stat points and one level_up event per level gained, and leaves         *)
(* hp = maxHp = 50 + 2*con + 5*level when a level was gained; level 1 with *)
(* xp 95 plus 10 XP gives level 2 with xp 5, and exactly 100*L XP from     *)
(* xp 0 gives one level-up with xp 0.                                      *)
C8_LevelUpLoop ==
  \A pid \in PlayerIds : \A amount \in XpAwards :
    LET p == players[pid]
        r == awardXp(p, amount)
        q == r.player
        gained == q.level - p.level
    IN  /\ 0 <= q.xp /\ q.xp < 100 * q.level
        /\ gained >= 0
        /\ totalXp(q) = totalXp(p) + amount
        /\ q.statPointsAvailable = p.statPointsAvailable + (2 * gained)
        /\ Len(r.events) = gained
        /\ \A i \in DOMAIN r.events : r.events[i].type = "level_up"
        /\ gained > 0 =>
             (q.hp = q.maxHp /\ q.maxHp = 50 + (2 * q.stats["con"]) + (5 * q.level))
        /\ gained = 0 => q = [p EXCEPT !.xp = @ + amount]
        /\ (p.level = 1 /\ p.xp = 95 /\ amount = 10) => (q.level = 2 /\ q.xp = 5)
        /\ (p.xp = 0 /\ amount = 100 * p.level) => (gained = 1 /\ q.xp = 0)

C8_Witness ==
  \E pid \in PlayerIds :
    /\ players[pid].level = 1 /\ players[pid].xp = 95 /\ players[pid].hp = 1
    /\ awardXp(players[pid], 10).player.level = 2
    /\ awardXp(players[pid], 600).player.level = 4
    /\ Len(awardXp(players[pid], 600).events) = 3

(* the entity a handler result reports killed *)
killedIn(events) ==
  events[CHOOSE i \in DOMAIN events : events[i].type = "entity_killed"].subject

(* C9: when resolveCombat reports the defender dead, handleAttack adds the *)
(* entity's xpReward to the player's XP, adds exactly 1 to                 *)
(* statistics.entitiesKilled, runs the level-up loop, persists the entity  *)
(* with hp 0 and removes its id from the room's entity list iff respawns   *)
(* is false, with or without a loot table and a loot item; and no call     *)
(* lowers the kill counter.                                                *)
C9_KillEffects ==
  \A pid \in PlayerIds : \A intent \in Intents :
    \A o \in processAction(store, pid, intent) :
      /\ \A i \in DOMAIN o.returned :
           /\ o.returned[i].statistics.entitiesKilled
                >= players[pid].statistics.entitiesKilled
           /\ o.st.players[pid].statistics.entitiesKilled
                >= players[pid].statistics.entitiesKilled
      /\ (o.handler # <<>> /\ hasType(o.handler[1].events, "entity_killed")) =>
           LET p == players[pid]
               h == o.handler[1].player
               e == killedIn(o.handler[1].events)
           IN  /\ intent.action = "attack"
               /\ totalXp(h) = totalXp(p) + entities[e].xpReward
               /\ h.xp < 100 * h.level
               /\ h.statistics.entitiesKilled = p.statistics.entitiesKilled + 1
               /\ o.st.players[pid].statistics.entitiesKilled
                    = p.statistics.entitiesKilled + 1
               /\ o.st.players[pid].xp = h.xp /\ o.st.players[pid].level = h.level
               /\ o.st.entities[e].hp = 0
               /\ e \in Range(nodes[p.location].entities)
               /\ (e \in Range(o.st.nodes[p.location].entities)) <=> entities[e].respawns
               /\ \A other \in DOMAIN entities \ {e} : o.st.entities[other] = entities[other]

C9_Witness ==
  \E pid \in PlayerIds : \E intent \in AttackIntents :
    \E o \in processAction(store, pid, intent) :
      /\ o.handler # <<>>
      /\ hasType(o.handler[1].events, "entity_killed")
      /\ ~hasType(o.handler[1].events, "loot_dropped")
      /\ killedIn(o.handler[1].events) = "ogre"
      /\ entities["ogre"].lootTableId \notin DOMAIN LootTables
      /\ "ogre" \notin Range(o.st.nodes[players[pid].location].entities)
      /\ entities["rat"].hp = 0 /\ "rat" \in Range(nodes[players[pid].location].entities)

(* the target string is absent or empty, or it is no entity id of the room *)
(* and no part of the lower-cased name of an entity of the room            *)
unresolvedTarget(pid, intent) ==
  \/ ~intent.target.present
  \/ intent.target.chars = <<>>
  \/ \A e \in Range(nodes[players[pid].location].entities) :
       /\ Spell(e) # intent.target.chars
       /\ e \in DOMAIN entities =>
            ~includes(toLowerCase(entities[e].name), toLowerCase(intent.target.chars))

(* C10: an attack whose target string is absent or empty, or matches no    *)
(* entity id of the room exactly and no entity name by case-insensitive    *)
(* substring, yields an error event and resolves no combat: the handler    *)
(* changes no entity hp and no player hp.                                  *)
C10_UnresolvedTargetNoCombat ==
  \A pid \in PlayerIds : \A intent \in AttackIntents :
    (/\ players[pid].alive
     /\ players[pid].location \in DOMAIN nodes
     /\ unresolvedTarget(pid, intent)) =>
      \A o \in processAction(store, pid, intent) :
        /\ o.handler # <<>>
        /\ hasType(o.handler[1].events, "error")
        /\ ~hasType(o.handler[1].events, "player_attack")
        /\ o.handler[1].player.hp = players[pid].hp
        /\ \A e \in DOMAIN entities : o.st.entities[e].hp = entities[e].hp

(* the number of instances of an item a player holds, in inventory and equipment *)
countIn(seq, x) == Cardinality({i \in DOMAIN seq : seq[i] = x})

held(player, x) ==
  countIn(player.inventory, x)
  + Cardinality({s \in DOMAIN player.equipment : player.equipment[s] = x})

(* the slot an inventory item goes to: its slot, weapon for a weapon without one *)
slotFor(itemId) ==
  IF ItemDocs[itemId].slot # NoId THEN ItemDocs[itemId].slot
  ELSE IF ItemDocs[itemId].type = "weapon" THEN "weapon" ELSE NoId

occupant(player, slot) ==
  IF slot \in DOMAIN player.equipment THEN player.equipment[slot] ELSE NoId

(* C11: equipping item B from the inventory while its slot holds item A    *)
(* leaves A in the inventory, B in the slot, the inventory length          *)
(* unchanged and maxHp = 50 + 2*con + 5*level; with the slot empty the     *)
(* inventory shrinks by one.  Either way the multiset of item instances    *)
(* held in inventory plus equipment is unchanged; an item with no slot     *)
(* that is not a weapon yields an error with inventory and equipment       *)
(* unchanged.                                                              *)
C11_EquipSwap ==
  \A pid \in PlayerIds : \A intent \in GearEquipIntents \cup EquipIntents :
    LET p == players[pid]
        idx == findInventoryItem(p, intent.target)
    IN  (p.alive /\ idx # 0) =>
          \A o \in processAction(store, pid, intent) :
            LET q == o.handler[1].player
                B == p.inventory[idx]
                slot == slotFor(B)
                A == occupant(p, slot)
            IN  /\ o.handler # <<>>
                /\ \A x \in ItemIds : held(q, x) = held(p, x)
                /\ slot = NoId =>
                     /\ hasType(o.handler[1].events, "error")
                     /\ q.inventory = p.inventory /\ q.equipment = p.equipment
                /\ slot # NoId =>
                     /\ q.equipment[slot] = B
                     /\ q.maxHp = 50 + (2 * q.stats["con"]) + (5 * q.level)
                     /\ o.st.players[pid].equipment = q.equipment
                     /\ o.st.players[pid].inventory = q.inventory
                     /\ A # NoId =>
                          /\ countIn(q.inventory, A) > 0
                          /\ Len(q.inventory) = Len(p.inventory)
                     /\ A = NoId => Len(q.inventory) = Len(p.inventory) - 1

C11_Witness ==
  \E pid \in PlayerIds :
    /\ players[pid].equipment["weapon"] = "pipe"
    /\ \E o \in processAction(store, pid, Intent("equip", Target(Spell("bat")), NoId)) :
         /\ o.handler # <<>>
         /\ o.handler[1].player.equipment["weapon"] = "bat"
         /\ countIn(o.handler[1].player.inventory, "pipe") = 1
         /\ Len(o.handler[1].player.inventory) = Len(players[pid].inventory)

(* C12: after any sequence of equip actions the equipment has exactly the  *)
(* four slots weapon, head, chest and feet, each empty or holding one item *)
(* instance: equip creates no other slot key.                              *)
C12_FourSlots ==
  \A pid \in PlayerIds :
    /\ DOMAIN players[pid].equipment = {"weapon", "head", "chest", "feet"}
    /\ \A s \in DOMAIN players[pid].equipment :
         players[pid].equipment[s] \in ItemIds \cup {NoId}

(* C13: a pickup attempted when the inventory length is at least the       *)
(* capacity yields an error event naming the capacity and leaves the       *)
(* room's item list and the player's inventory unchanged, whether or not   *)
(* the target item is in the room.                                         *)
C13_FullInventoryPickup ==
  \A pid \in PlayerIds : \A intent \in PickupIntents \cup GearPickupIntents :
    LET p == players[pid]
    IN  (p.alive /\ Len(p.inventory) >= 10 + ((p.stats["str"] - 10) \div 2)) =>
          \A o \in processAction(store, pid, intent) :
            /\ o.handler # <<>>
            /\ Len(o.handler[1].events) = 1
            /\ o.handler[1].events[1].type = "error"
            /\ o.handler[1].events[1].n = 10 + ((p.stats["str"] - 10) \div 2)
            /\ o.handler[1].player.inventory = p.inventory
            /\ o.st.players[pid].inventory = p.inventory
            /\ o.st.nodes = nodes

C13_Witness ==
  \E pid \in PlayerIds :
    /\ Len(players[pid].inventory) = getInventoryCapacity(players[pid])
    /\ countIn(nodes[players[pid].location].items, "rock") > 0
    /\ countIn(nodes[players[pid].location].items, "tonic") = 0
    /\ \A t \in {"rock", "tonic"} :
         \E o \in processAction(store, pid, Intent("pickup", Target(Spell(t)), NoId)) :
           /\ o.events = <<Ev("error", "", "inventory_full", 10)>>
           /\ o.st = store

(* C14: a move whose direction is missing or names no connection of the   *)
(* current room yields an error event listing the room's exits and changes *)
(* nothing: location, hp, explored and every room document are as before.  *)
C14_NoExitMove ==
  \A pid \in PlayerIds : \A intent \in MoveIntents :
    LET p == players[pid]
    IN  (/\ p.alive
         /\ p.location \in DOMAIN nodes
         /\ \/ intent.direction = NoId
            \/ intent.direction \notin DOMAIN nodes[p.location].connections
            \/ nodes[p.location].connections[intent.direction] = NoId) =>
          \A o \in processAction(store, pid, intent) :
            /\ o.handler # <<>>
            /\ Len(o.events) = 1
            /\ o.events[1].type = "error"
            /\ Range(o.events[1].list)
                 = {toUpperCase(d) : d \in {k \in DOMAIN nodes[p.location].connections :
                                               nodes[p.location].connections[k] # NoId}}
            /\ o.handler[1].player = p
            /\ o.returned = <<p>>
            /\ o.st = store

C14_Witness ==
  \E pid \in PlayerIds :
    /\ players[pid].location = "alley"
    /\ \A d \in {"n", "x", NoId} :
         \E o \in processAction(store, pid, Intent("move", NoTarget, d)) :
           /\ o.events[1].type = "error"
           /\ o.events[1].list = <<"S", "DOWN">>
           /\ o.st = store

(* explored holds no room id twice *)
noDuplicates(seq) == \A i, j \in DOMAIN seq : seq[i] = seq[j] => i = j

(* C15: a successful move sets location to the room id the named           *)
(* connection points to, and that id is in explored afterwards; after any  *)
(* sequence of moves and flees from createPlayer, location is a member of  *)
(* explored and the id of an existing room, explored holds no duplicates   *)
(* and never shrinks.                                                      *)
C15_LocationExplored ==
  \A pid \in PlayerIds :
    LET p == players[pid]
    IN  /\ p.location \in Range(p.explored)
        /\ p.location \in DOMAIN nodes
        /\ noDuplicates(p.explored)
        /\ \A intent \in Intents : \A o \in processAction(store, pid, intent) :
             \A i \in DOMAIN o.returned :
               LET q == o.returned[i]
               IN  /\ isPrefix(p.explored, q.explored)
                   /\ o.st.players[pid].explored = q.explored
                   /\ o.st.players[pid].location = q.location
                   /\ (intent.action = "move" /\ hasType(o.events, "move")) =>
                        /\ q.location = nodes[p.location].connections[intent.direction]
                        /\ q.location \in Range(q.explored)
                   /\ (intent.action = "flee" /\ hasType(o.events, "move")) =>
                        /\ \E d \in DOMAIN nodes[p.location].connections :
                             q.location = nodes[p.location].connections[d]
                        /\ q.location \in Range(q.explored)
                   /\ ~hasType(o.events, "move") => q.location = p.location

C15_Witness ==
  \E pid \in PlayerIds :
    /\ players[pid].location = "alley"
    /\ players[pid].explored = <<"plaza", "alley">>
    /\ \E o \in processAction(store, pid, Intent("move", NoTarget, "s")) :
         /\ hasType(o.events, "move")
         /\ o.returned[1].location = "plaza"
         /\ o.returned[1].explored = <<"plaza", "alley">>
    /\ \E o \in processAction(store, pid, Intent("flee", NoTarget, NoId)) :
         /\ hasType(o.events, "move")
         /\ o.returned[1].location = "cell"
         /\ o.returned[1].explored = <<"plaza", "alley", "cell">>

(* the damage of the trap a move sprang, 0 when it sprang none *)
trapDamage(events) ==
  IF hasType(events, "hazard_damage")
  THEN events[CHOOSE i \in DOMAIN events : events[i].type = "hazard_damage"].n
  ELSE 0

(* C16: if the trap damage taken on entering a room brings hp to 0, the    *)
(* move sets alive = false, emits player_death, makes no scavenge roll     *)
(* (the room entered keeps its item list and no item_spawn is emitted)     *)
(* and the player is persisted dead at the new location.                   *)
C16_TrapDeath ==
  \A pid \in PlayerIds : \A intent \in MoveIntents :
    LET p == players[pid]
    IN  /\ \A o \in processAction(store, pid, intent) :
             (o.handler # <<>> /\ trapDamage(o.events) >= p.hp) =>
               LET q == o.st.players[pid]
               IN  /\ hasType(o.events, "player_death")
                   /\ ~hasType(o.events, "item_spawn")
                   /\ o.st.nodes = nodes
                   /\ o.returned = <<q>>
                   /\ ~q.alive /\ q.hp = 0
                   /\ q.location = nodes[p.location].connections[intent.direction]
        /\ \A r \in runPipeline(store, pid, intent) :
             (r.handler # <<>> /\ trapDamage(r.events) >= p.hp) =>
               /\ ~r.st.players[pid].alive
               /\ r.st.players[pid].location
                    = nodes[p.location].connections[intent.direction]
               /\ r.st.nodes = nodes

C16_Witness ==
  \E pid \in PlayerIds :
    /\ players[pid].alive /\ players[pid].location = "plaza"
    /\ \E o \in processAction(store, pid, Intent("move", NoTarget, "n")) :
         /\ trapDamage(o.events) >= players[pid].hp
         /\ hasType(o.events, "player_death")
         /\ ~o.st.players[pid].alive
         /\ o.st.players[pid].location = "alley"
    /\ \E o \in processAction(store, pid, Intent("move", NoTarget, "n")) :
         /\ trapDamage(o.events) > 0
         /\ hasType(o.events, "item_spawn")

(* the living non-passive entities of the player's room, and its exits *)
hostileHere(pid) ==
  {i \in DOMAIN nodes[players[pid].location].entities :
     LET e == nodes[players[pid].location].entities[i]
     IN  /\ e \in DOMAIN entities
         /\ entities[e].hp > 0
         /\ entities[e].entityClass \notin {"Merchant", "TutorialGuide"}}

exitTargets(pid) ==
  {nodes[players[pid].location].connections[d] :
     d \in {k \in DOMAIN nodes[players[pid].location].connections :
              nodes[players[pid].location].connections[k] # NoId}}

(* C17: flee in a room with no living non-passive entity yields an error   *)
(* with no location change and no hp change; flee in a room with a hostile *)
(* but no exit yields an error with no location change; on a successful    *)
(* check with a resolvable destination the new location is the target of   *)
(* one of the current room's exits.                                        *)
C17_Flee ==
  \A pid \in PlayerIds :
    LET p == players[pid]
    IN  (p.alive /\ p.location \in DOMAIN nodes) =>
          \A o \in processAction(store, pid, Intent("flee", NoTarget, NoId)) :
            LET q == o.st.players[pid]
                h == o.handler[1]
            IN  /\ o.handler # <<>>
                /\ o.returned = <<q>>
                /\ hostileHere(pid) = {} =>
                     /\ Len(h.events) = 1 /\ h.events[1].type = "error"
                     /\ o.events = h.events
                     /\ q.location = p.location /\ q.hp = p.hp
                     /\ o.st = store
                /\ (hostileHere(pid) # {} /\ exitTargets(pid) = {}) =>
                     /\ Len(h.events) = 1 /\ h.events[1].type = "error"
                     /\ q.location = p.location
                /\ (h.events # <<>> /\ h.events[1] = Ev("skill_check", "Flee", "success", 0)) =>
                     /\ q.location \in exitTargets(pid) \cup {p.location}
                     /\ q.location \in DOMAIN nodes
                     /\ hasType(h.events, "move") <=> q.location # p.location
                     /\ q.location = p.location => exitTargets(pid) \ DOMAIN nodes # {}
                /\ (h.events # <<>> /\ h.events[1] = Ev("skill_check", "Flee", "fail", 0)) =>
                     q.location = p.location

C17_Witness ==
  \E pid \in PlayerIds :
    /\ players[pid].location = "alley" /\ players[pid].alive
    /\ entities["imp"].hp = 0 /\ entities["guide"].hp > 0
    /\ \E o \in processAction(store, pid, Intent("flee", NoTarget, NoId)) :
         o.events = <<ErrorEv("nothing_to_flee")>> /\ o.st = store

(* the other two cases of C17 are reached as well: a hostile and no exit, *)
(* and an escape through either exit                                       *)
C17_WitnessNoExit ==
  \E pid \in PlayerIds :
    /\ players[pid].location = "cell" /\ players[pid].alive
    /\ \E o \in processAction(store, pid, Intent("flee", NoTarget, NoId)) :
         /\ o.handler[1].events = <<ErrorEv("no_exits")>>
         /\ o.st.players[pid].hp < players[pid].hp

C17_WitnessEscape ==
  \E pid \in PlayerIds :
    /\ players[pid].location = "alley" /\ players[pid].alive
    /\ \A target \in {"plaza", "cell"} :
         \E o \in processAction(store, pid, Intent("flee", NoTarget, NoId)) :
           /\ hasType(o.events, "move")
           /\ o.st.players[pid].location = target

(* C18: use on an inventory consumable with healAmount h sets hp to        *)
(* min(maxHp, hp + h) and removes exactly that one item from the           *)
(* inventory, every other inventory and equipment item staying in place;   *)
(* use on a non-consumable item, or on a target matching no inventory      *)
(* item, yields an error and the handler changes neither inventory nor hp. *)
C18_Use ==
  \A pid \in PlayerIds : \A intent \in UseIntents \cup {Intent("use", t, NoId) : t \in GearTargets} :
    LET p == players[pid]
        idx == findInventoryItem(p, intent.target)
    IN  p.alive =>
          \A o \in processAction(store, pid, intent) :
            LET h == o.handler[1]
            IN  /\ o.handler # <<>>
                /\ (idx = 0 \/ ItemDocs[p.inventory[idx]].type # "consumable") =>
                     /\ Len(h.events) = 1 /\ h.events[1].type = "error"
                     /\ h.player = p
                     /\ o.st.players[pid].inventory = p.inventory
                /\ (idx # 0 /\ ItemDocs[p.inventory[idx]].type = "consumable") =>
                     LET heal == ItemDocs[p.inventory[idx]].stats.healAmount
                         capped == IF p.hp + heal > p.maxHp THEN p.maxHp ELSE p.hp + heal
                     IN  /\ ~hasType(h.events, "error")
                         /\ h.player.hp = capped
                         /\ Len(h.player.inventory) = Len(p.inventory) - 1
                         /\ \A i \in DOMAIN h.player.inventory :
                              h.player.inventory[i] = p.inventory[IF i < idx THEN i ELSE i + 1]
                         /\ h.player = [p EXCEPT !.hp = capped,
                                                 !.inventory = h.player.inventory]
                         /\ o.st.players[pid].inventory = h.player.inventory

C18_Witness ==
  \E pid \in PlayerIds :
    /\ players[pid].inventory = <<"pipe", "tonic">>
    /\ players[pid].hp = 35 /\ players[pid].maxHp = 75
    /\ \E o \in processAction(store, pid, Intent("use", Target(<<"t", "o", "n">>), NoId)) :
         /\ hasType(o.events, "item_used")
         /\ o.handler[1].player.hp = 75
         /\ o.handler[1].player.inventory = <<"pipe">>
    /\ \E o \in processAction(store, pid, Intent("use", Target(<<"P", "i", "p", "e">>), NoId)) :
         o.handler[1].events = <<ErrorEv("not_consumable")>>

(* the allocate intents tried: every stat name, and targets that name none *)
AnyStatIntents ==
  {Intent("allocate", t, NoId) :
     t \in {Target(Spell(n)) : n \in {"str", "dex", "con", "int", "wis", "cha"}}
           \cup {NoTarget, Target(<<>>), Target(<<"C", "O", "N">>), Target(<<"l", "u", "c", "k">>)}}

(* the stat an allocate intent names, NoId when it names none of the six *)
statNamed(intent) ==
  IF intent.target.present
     /\ \E n \in {"str", "dex", "con", "int", "wis", "cha"} : Spell(n) = intent.target.chars
  THEN CHOOSE n \in {"str", "dex", "con", "int", "wis", "cha"} : Spell(n) = intent.target.chars
  ELSE NoId

(* C19: allocate with statPointsAvailable >= 1 and a valid stat name (str, *)
(* dex, con, int, wis, cha) adds exactly 1 to that stat, takes exactly 1   *)
(* from statPointsAvailable and sets maxHp = 50 + 2*con + 5*level; with no *)
(* points or an invalid stat name it yields an error and the handler       *)
(* changes no field.  statPointsAvailable is never negative.               *)
C19_Allocate ==
  \A pid \in PlayerIds :
    LET p == players[pid]
    IN  /\ p.statPointsAvailable >= 0
        /\ p.alive =>
             \A intent \in AnyStatIntents : \A o \in processAction(store, pid, intent) :
               LET h == o.handler[1]
                   name == statNamed(intent)
               IN  /\ o.handler # <<>>
                   /\ o.st.nodes = nodes /\ o.st.entities = entities
                   /\ (p.statPointsAvailable >= 1 /\ name # NoId) =>
                        /\ ~hasType(h.events, "error")
                        /\ h.player.stats = [p.stats EXCEPT ![name] = @ + 1]
                        /\ h.player.statPointsAvailable = p.statPointsAvailable - 1
                        /\ h.player.maxHp
                             = 50 + (2 * h.player.stats["con"]) + (5 * h.player.level)
                        /\ h.player = [p EXCEPT !.stats = h.player.stats,
                                                !.statPointsAvailable = @ - 1,
                                                !.maxHp = h.player.maxHp]
                        /\ o.st.players[pid].stats = h.player.stats
                        /\ o.st.players[pid].statPointsAvailable = h.player.statPointsAvailable
                   /\ (p.statPointsAvailable = 0 \/ name = NoId) =>
                        /\ Len(h.events) = 1 /\ h.events[1].type = "error"
                        /\ h.player = p
                        /\ o.st.players[pid].stats = p.stats
                        /\ o.st.players[pid].statPointsAvailable = p.statPointsAvailable

C19_Witness ==
  \E pid \in PlayerIds :
    /\ players[pid].statPointsAvailable = 2 /\ players[pid].level = 2
    /\ \E o \in processAction(store, pid, Intent("allocate", Target(Spell("con")), NoId)) :
         /\ hasType(o.events, "stat_allocated")
         /\ o.handler[1].player.stats["con"] = 11
         /\ o.handler[1].player.maxHp = 82
         /\ o.handler[1].player.statPointsAvailable = 1
    /\ \E o \in processAction(store, pid, Intent("allocate", Target(<<"C", "O", "N">>), NoId)) :
         o.handler[1].events = <<ErrorEv("invalid_stat")>>

(* the loot box an open intent resolves to: its index in the inventory, 0 for none *)
boxOpened(p, intent) ==
  firstOf({i \in DOMAIN p.inventory :
             /\ ItemDocs[p.inventory[i]].type = "lootbox"
             /\ matchesItem(p.inventory[i], searchString(intent.target))})

(* the XP the tiers pay *)
tierReward(tier) ==
  CASE tier = "iron" -> 10 [] tier = "bronze" -> 25 [] tier = "silver" -> 50
    [] tier = "gold" -> 100 [] OTHER -> 10

(* C20: open on a loot box whose tier has no loot table yields an error and *)
(* leaves the box in the inventory and xp unchanged; otherwise the box is   *)
(* removed, at most one rolled item is added (none if the rolled item has   *)
(* no document), xp grows by the tier reward (iron 10, bronze 25, silver    *)
(* 50, gold 100, any other tier 10), statistics.lootboxesOpened grows by    *)
(* exactly 1 and the level-up loop runs.                                    *)
C20_OpenLootbox ==
  \A pid \in PlayerIds :
    LET p == players[pid]
    IN  p.alive =>
          \A intent \in LootOpenIntents : \A o \in processAction(store, pid, intent) :
            LET h == o.handler[1]
                idx == boxOpened(p, intent)
                tier == ItemDocs[p.inventory[idx]].tier
                table == LootTables[lootboxTableId(tier)]
                rest == removeAt(p.inventory, idx)
                inv == h.player.inventory
            IN  /\ o.handler # <<>>
                /\ o.st.players[pid].inventory = inv
                /\ (idx # 0 /\ lootboxTableId(tier) \notin DOMAIN LootTables) =>
                     /\ Len(h.events) = 1 /\ h.events[1].type = "error"
                     /\ h.player = p
                     /\ inv[idx] = p.inventory[idx]
                     /\ o.st.players[pid].xp = p.xp /\ o.st.players[pid].level = p.level
                /\ (idx # 0 /\ lootboxTableId(tier) \in DOMAIN LootTables) =>
                     /\ ~hasType(h.events, "error")
                     /\ \/ /\ inv = rest
                            /\ \E i \in DOMAIN table : table[i].itemId \notin DOMAIN ItemDocs
                        \/ /\ Len(inv) = Len(rest) + 1
                            /\ SubSeq(inv, 1, Len(rest)) = rest
                            /\ inv[Len(inv)] \in DOMAIN ItemDocs
                            /\ \E i \in DOMAIN table : table[i].itemId = inv[Len(inv)]
                     /\ totalXp(h.player) = totalXp(p) + tierReward(tier)
                     /\ h.player.statistics.lootboxesOpened
                          = p.statistics.lootboxesOpened + 1
                     /\ h.player.xp >= 0
                     /\ h.player.xp < xpToNextLevel(h.player.level)
                     /\ h.player.level >= p.level
                     /\ h.player.statPointsAvailable
                          = p.statPointsAvailable
                            + (STAT_POINTS_PER_LEVEL * (h.player.level - p.level))
                     /\ o.st.players[pid].xp = h.player.xp
                     /\ o.st.players[pid].level = h.player.level

C20_Witness ==
  \E pid \in PlayerIds :
    LET p == players[pid]
    IN  /\ p.inventory = <<"bronze_lootbox", "gold_chest">>
        /\ p.level = 1 /\ p.xp = 0
        /\ \E o \in processAction(store, pid, Intent("open", Target(<<"b", "o", "x">>), NoId)) :
             /\ o.events = <<ErrorEv("no_loot_table")>>
             /\ o.st.players[pid] = p
        /\ \E o \in processAction(store, pid, Intent("open", Target(<<"g", "o", "l", "d">>), NoId)) :
             /\ o.st.players[pid].inventory = <<"bronze_lootbox", "tonic">>
             /\ o.st.players[pid].level = 2 /\ o.st.players[pid].xp = 0
             /\ o.st.players[pid].statistics.lootboxesOpened = 1
             /\ hasType(o.events, "level_up")

(* an opened box whose rolled item has no document adds nothing *)
C20_WitnessNothingRolled ==
  \E pid \in PlayerIds :
    /\ players[pid].inventory = <<"tin_lootbox">>
    /\ \A o \in processAction(store, pid, Intent("open", Target(<<"t", "i", "n">>), NoId)) :
         /\ o.st.players[pid].inventory = <<>>
         /\ o.st.players[pid].xp = players[pid].xp + 10

(* the positions in the player's room of the entities a talk target resolves to *)
talkMatches(pid, target) ==
  LET ents == nodes[players[pid].location].entities
  IN  {i \in DOMAIN ents :
         /\ ents[i] \in DOMAIN entities
         /\ \/ (target.present /\ Spell(ents[i]) = target.chars)
            \/ includes(toLowerCase(entities[ents[i]].name), toLowerCase(orEmpty(target)))}

TalkProbes ==
  {Intent("talk", t, NoId) :
     t \in {Target(Spell("rat")), Target(Spell("bob")), Target(Spell("imp")),
            Target(<<"z">>), Target(<<"R", "A">>)}}

(* C21: talk succeeds only against a living NPC in the room: when every    *)
(* entity matching the target has hp 0, or no entity matches, talk yields  *)
(* an error event and no talk event.                                       *)
C21_TalkNeedsLivingNpc ==
  \A pid \in PlayerIds :
    (players[pid].alive /\ players[pid].location \in DOMAIN nodes) =>
      \A intent \in TalkProbes :
        (\A i \in talkMatches(pid, intent.target) :
           entities[nodes[players[pid].location].entities[i]].hp <= 0) =>
          \A o \in processAction(store, pid, intent) :
            /\ o.handler # <<>>
            /\ hasType(o.handler[1].events, "error")
            /\ ~hasType(o.handler[1].events, "talk")

(* the case labels of processAction's switch *)
SupportedActions ==
  {"move", "look", "attack", "pickup", "use", "equip", "inventory", "stats", "map",
   "allocate", "open", "inspect", "talk", "flee", "unknown"}

(* action tags the switch has no case for; the labels are matched exactly *)
StrayActions == {"dance", "", "MOVE", "Look", "drop", NoId}

StrayIntents ==
  {Intent(a, t, d) : a \in StrayActions, t \in {NoTarget, Target(Spell("rat"))},
                     d \in {NoId, "n"}}

(* C22: every intent whose action tag is not one of the supported actions  *)
(* is a dispatch-table miss: the handler result is exactly one event of    *)
(* type error, and the dispatch changes no player, room or entity state    *)
(* (what changes by the end of the call is the aggro tick's doing).        *)
C22_DispatchMiss ==
  /\ StrayActions \cap SupportedActions = {}
  /\ \A pid \in PlayerIds :
       players[pid].alive =>
         \A intent \in StrayIntents : \A o \in processAction(store, pid, intent) :
           /\ ~o.threw
           /\ o.handler # <<>>
           /\ Len(o.handler[1].events) = 1
           /\ o.handler[1].events[1].type = "error"
           /\ o.handler[1].player = players[pid]
           /\ o.st.nodes = nodes /\ o.st.entities = entities
           /\ o.attempts = <<>> => o.st = store
           /\ o.st.players[pid] = [players[pid] EXCEPT !.hp = o.st.players[pid].hp,
                                                     !.alive = o.st.players[pid].alive,
                                                     !.skills = o.st.players[pid].skills]

C22_Witness ==
  \E pid \in PlayerIds :
    /\ players[pid].alive /\ turns > 0
    /\ \E o \in processAction(store, pid, Intent("MOVE", NoTarget, "n")) :
         /\ o.handler # <<>>
         /\ o.handler[1].events = <<ErrorEv("unknown_action")>>
         /\ o.st.players[pid].location = players[pid].location
         /\ o.attempts # <<>>

(* C23: a failure inside the core is surfaced as an error event and never  *)
(* as an exception to the caller: when the player's current room document  *)
(* is absent, each of look, move, attack, pickup, talk and flee returns a  *)
(* result containing an error event instead of raising.                    *)
C23_MissingRoomIsAnErrorEvent ==
  \A pid \in PlayerIds :
    (players[pid].alive /\ players[pid].location \notin DOMAIN nodes) =>
      \A intent \in LostIntents : \A o \in processAction(store, pid, intent) :
        ~o.threw /\ hasType(o.events, "error")

(* floor(x / 2), from its definition *)
floorHalf(x) == CHOOSE q \in -50..50 : (2 * q) <= x /\ x < (2 * q) + 2

(* the attack value a player strikes with: the weapon's when armed, else *)
(* floor(improviseLevel * 0.5)                                           *)
strikeAttack(p) ==
  IF p.equipment["weapon"] # NoId
  THEN ItemDocs[p.equipment["weapon"]].stats.attack
  ELSE floorHalf(p.skills["improvise"])

(* C24: the damage the player deals in resolveCombat is                   *)
(* max(1, A + floor((str-10)/2) - defense), A being the equipped weapon's *)
(* attack when armed and floor(improviseLevel * 0.5) when bare-handed; it *)
(* is at least 1 and the defender's hp becomes max(0, hp - damage).  With *)
(* str 10, bare hands, improvise level 1 and defender defense 2 the       *)
(* defender's hp decreases by exactly 1.                                  *)
C24_PlayerDamage ==
  \A pid \in PlayerIds :
    LET p == players[pid]
        e == entities[DuelFoe]
        raw == strikeAttack(p) + floorHalf(p.stats["str"] - 10) - e.defense
        damage == IF raw >= 1 THEN raw ELSE 1
    IN  (p.hp > 0 /\ e.hp > 0) =>
          \A r \in resolveCombat(p, DuelFoe, e) :
            /\ damage >= 1
            /\ r.entity.hp = (IF e.hp - damage >= 0 THEN e.hp - damage ELSE 0)
            /\ \E i \in DOMAIN r.events :
                 r.events[i].type = "player_attack" /\ r.events[i].n = damage
            /\ (p.stats["str"] = 10 /\ p.equipment["weapon"] = NoId
                /\ p.skills["improvise"] = 1 /\ e.defense = 2) =>
                 r.entity.hp = e.hp - 1

C24_Witness ==
  \E pid \in PlayerIds :
    /\ players[pid].stats["str"] = 10 /\ players[pid].equipment["weapon"] = NoId
    /\ players[pid].skills["improvise"] = 1 /\ players[pid].hp > 0
    /\ entities[DuelFoe].defense = 2 /\ entities[DuelFoe].hp = 4
    /\ turns = 1
    /\ \A r \in resolveCombat(players[pid], DuelFoe, entities[DuelFoe]) : r.entity.hp = 3

(* a strike whose raw value is below 1 still deals 1 *)
C24_WitnessFloor ==
  \E pid \in PlayerIds :
    /\ players[pid].stats["str"] = 7 /\ players[pid].equipment["weapon"] = "bat"
    /\ entities[DuelFoe].defense = 6 /\ entities[DuelFoe].hp = 5
    /\ \A r \in resolveCombat(players[pid], DuelFoe, entities[DuelFoe]) : r.entity.hp = 4

(* the position of the first event of a type, 0 when there is none *)
firstOfType(events, type) ==
  IF \E i \in DOMAIN events : events[i].type = type
  THEN CHOOSE i \in DOMAIN events :
         events[i].type = type /\ \A j \in 1..(i - 1) : events[j].type # type
  ELSE 0

dodgedIn(events) ==
  \E i \in DOMAIN events :
    events[i].type = "skill_check" /\ events[i].subject = "Dodge"
    /\ events[i].detail = "success"

(* C25: one call of resolveCombat is player attack, defender-death check,  *)
(* dodge check, counter-attack, player-death check.  If the player's       *)
(* attack brings the defender to 0 hp the call returns entityDead = true   *)
(* and playerDead = false with the player's hp unchanged and no dodge      *)
(* roll; a successful dodge leaves the player's hp unchanged; playerDead   *)
(* is true exactly when the player's hp is 0 on return; entityDead and     *)
(* playerDead are never both true.                                         *)
C25_CombatRound ==
  \A pid \in PlayerIds :
    LET p == players[pid]
        e == entities[DuelFoe]
    IN  (p.hp > 0 /\ e.hp > 0) =>
          \A r \in resolveCombat(p, DuelFoe, e) :
            LET atk == firstOfType(r.events, "player_attack")
                after == SubSeq(r.events, atk + 1, Len(r.events))
                hit == firstOfType(after, "entity_attack")
            IN  /\ atk # 0
                /\ \A i \in 1..(atk - 1) :
                     r.events[i].type = "skill_check" /\ r.events[i].subject = "Improvise"
                /\ r.entityDead = (r.entity.hp = 0)
                /\ r.entityDead =>
                     /\ ~r.playerDead
                     /\ r.player = p
                     /\ Len(after) = 1 /\ after[1].type = "entity_killed"
                /\ ~r.entityDead =>
                     /\ ~hasType(after, "entity_killed")
                     /\ dodgedIn(after) => (r.player.hp = p.hp /\ hit = 0 /\ ~r.playerDead)
                     /\ ~dodgedIn(after) =>
                          /\ hit = 1
                          /\ r.player.hp < p.hp
                          /\ Len(after) = (IF r.playerDead THEN 2 ELSE 1)
                          /\ r.playerDead => after[2].type = "player_death"
                /\ r.playerDead = (r.player.hp = 0)
                /\ ~(r.entityDead /\ r.playerDead)

C25_Witness ==
  \E pid \in PlayerIds :
    /\ players[pid].hp = 1 /\ entities[DuelFoe].hp = 5 /\ entities[DuelFoe].attack = 40
    /\ entities[DuelFoe].defense = 6
    /\ \E r \in resolveCombat(players[pid], DuelFoe, entities[DuelFoe]) :
         r.playerDead /\ r.player.hp = 0 /\ ~r.entityDead /\ r.entity.hp = 4
    /\ \E r \in resolveCombat(players[pid], DuelFoe, entities[DuelFoe]) :
         dodgedIn(r.events) /\ r.player.hp = 1 /\ ~r.playerDead

(* the killing blow ends the round before the dodge check *)
C25_WitnessKill ==
  \E pid \in PlayerIds :
    /\ players[pid].hp = 1 /\ entities[DuelFoe].hp = 1 /\ entities[DuelFoe].attack = 40
    /\ \A r \in resolveCombat(players[pid], DuelFoe, entities[DuelFoe]) :
         r.entityDead /\ ~r.playerDead /\ r.player = players[pid] /\ r.entity.hp = 0

(* the player objects a call of either resolver leaves behind *)
resolvedPlayers(p, e) ==
  {r.player : r \in resolveCombat(p, DuelFoe, e)}
  \cup {r.player : r \in resolveEnemyAttack(p, DuelFoe, e)}

(* C26, as amended: resolveCombat and resolveEnemyAttack change nothing    *)
(* except player.hp, entity.hp and, when a successful dodge wins a skill   *)
(* level-up, player.skills.dodge, which grows by 1; no other field of the  *)
(* player or the entity is modified by a call.                             *)
C26_ResolverFrame ==
  \A pid \in PlayerIds :
    LET p == players[pid]
        e == entities[DuelFoe]
    IN  (p.hp > 0 /\ e.hp > 0) =>
          /\ \A q \in resolvedPlayers(p, e) :
               /\ [q EXCEPT !.hp = p.hp, !.skills["dodge"] = p.skills["dodge"]] = p
               /\ q.skills["dodge"] \in {p.skills["dodge"], p.skills["dodge"] + 1}
               /\ q.skills["dodge"] # p.skills["dodge"] => q.hp = p.hp
          /\ \A r \in resolveCombat(p, DuelFoe, e) : [r.entity EXCEPT !.hp = e.hp] = e

C26_Witness ==
  \E pid \in PlayerIds :
    /\ players[pid].hp = 30 /\ players[pid].skills["dodge"] = 1
    /\ entities[DuelFoe].hp = 5 /\ entities[DuelFoe].attack = 2
    /\ \E r \in resolveEnemyAttack(players[pid], DuelFoe, entities[DuelFoe]) :
         r.player.skills["dodge"] = 2 /\ r.player.hp = 30
    /\ \E r \in resolveEnemyAttack(players[pid], DuelFoe, entities[DuelFoe]) :
         r.player.skills = players[pid].skills /\ r.player.hp < 30

(* C26 as stated: the two resolvers change nothing except player.hp and *)
(* entity.hp.                                                           *)
C26_OnlyHpChanges ==
  \A pid \in PlayerIds :
    LET p == players[pid]
        e == entities[DuelFoe]
    IN  (p.hp > 0 /\ e.hp > 0) =>
          /\ \A q \in resolvedPlayers(p, e) : [q EXCEPT !.hp = p.hp] = p
          /\ \A r \in resolveCombat(p, DuelFoe, e) : [r.entity EXCEPT !.hp = e.hp] = e

(* clamp(baseDifficulty - 5*skillLevel - 3*floor((stat-10)/2), 5, 95) *)
clampedThreshold(skillLevel, stat, baseDifficulty) ==
  LET raw == baseDifficulty - (5 * skillLevel) - (3 * floorHalf(stat - 10))
  IN  IF raw < 5 THEN 5 ELSE IF raw > 95 THEN 95 ELSE raw

checkAsStated(skillLevel, stat, baseDifficulty) ==
  LET checks == rollSkillCheck(skillLevel, stat, baseDifficulty)
      threshold == clampedThreshold(skillLevel, stat, baseDifficulty)
  IN  /\ threshold \in 5..95
      /\ {c.roll : c \in checks} = 1..100
      /\ \A c \in checks : c.threshold = threshold /\ c.success = (c.roll >= threshold)
      /\ \E c \in checks : c.success
      /\ \E c \in checks : ~c.success

(* C27: for all integer skillLevel, stat and baseDifficulty, rollSkillCheck *)
(* computes threshold = clamp(baseDifficulty - 5*skillLevel                 *)
(* - 3*floor((stat-10)/2), 5, 95), draws a roll in 1..100 and succeeds iff  *)
(* roll >= threshold; the threshold is always in [5,95], so for every input *)
(* some roll succeeds and some roll fails.                                  *)
C27_SkillCheck ==
  /\ \A pid \in PlayerIds :
       checkAsStated(players[pid].skills["dodge"], players[pid].stats["dex"],
                     65 + (entities[DuelFoe].attack \div 2))
  /\ \A skillLevel \in {-3, 0, 1, 10, 14} : \A stat \in {-9, 0, 9, 10, 11, 45} :
       \A baseDifficulty \in {-100, 0, 5, 70, 95, 300} :
         checkAsStated(skillLevel, stat, baseDifficulty)

C27_Witness ==
  \E pid \in PlayerIds :
    /\ players[pid].skills["dodge"] = 10 /\ players[pid].stats["dex"] = 31
    /\ entities[DuelFoe].attack = 0 /\ turns > 0
    /\ \A c \in rollSkillCheck(players[pid].skills["dodge"], players[pid].stats["dex"], 65) :
         c.threshold = 5 /\ c.success = (c.roll >= 5)

(* a strong attacker: the threshold stops at 95 *)
C27_WitnessHigh ==
  \E pid \in PlayerIds :
    /\ players[pid].skills["dodge"] = 1 /\ players[pid].stats["dex"] = 1
    /\ entities[DuelFoe].attack = 200
    /\ \A c \in rollSkillCheck(1, 1, 165) : c.threshold = 95

(* the name a skill goes by in the events; the skills no handler rolls have none *)
skillLabel(skill) ==
  CASE skill = "dodge" -> "Dodge" [] skill = "flee" -> "Flee"
    [] skill = "senseDanger" -> "Sense Danger" [] skill = "scavenge" -> "Scavenge"
    [] OTHER -> "-"

(* the positions of the level-ups of a skill in an event list *)
raises(events, skill) ==
  {i \in DOMAIN events :
     events[i].type = "skill_level_up" /\ events[i].subject = skillLabel(skill)}

(* the event at i reports a success of the skill: a passed skill check, or *)
(* for scavenge the spawn roll whose chance the skill sets                 *)
successAt(events, i, skill) ==
  /\ i \in DOMAIN events
  /\ IF skill = "scavenge"
     THEN events[i].type = "item_spawn"
     ELSE /\ events[i].type = "skill_check"
          /\ events[i].subject = skillLabel(skill)
          /\ events[i].detail = "success"

(* C28: every skill level of a player stays in 1..10 after any sequence of *)
(* turns: a skill is raised only by 1, only right after a successful check *)
(* of that skill, and never when its level is already 10.                  *)
C28_SkillLevels ==
  \A pid \in PlayerIds :
    LET p == players[pid]
    IN  /\ \A skill \in SKILL_NAMES : p.skills[skill] \in 1..10
        /\ p.alive =>
             \A intent \in SkillIntents : \A o \in processAction(store, pid, intent) :
               \A skill \in SKILL_NAMES :
                 LET ups == raises(o.events, skill)
                     after == o.st.players[pid].skills[skill]
                 IN  /\ after \in 1..10
                     /\ after - p.skills[skill] \in {0, Cardinality(ups)}
                     /\ o.returned # <<>> =>
                          o.returned[1].skills[skill] = p.skills[skill] + Cardinality(ups)
                     /\ p.skills[skill] = 10 => (ups = {} /\ after = 10)
                     /\ \A i \in ups :
                          /\ successAt(o.events, i - 1, skill)
                          /\ o.events[i].n
                               = p.skills[skill] + Cardinality({j \in ups : j <= i})
                          /\ o.events[i].n <= 10

C28_Witness ==
  \E pid \in PlayerIds :
    /\ players[pid].skills["senseDanger"] = 9 /\ players[pid].skills["scavenge"] = 10
    /\ players[pid].skills["dodge"] = 10 /\ players[pid].alive /\ players[pid].location = "plaza"
    /\ \E o \in processAction(store, pid, Intent("move", NoTarget, "n")) :
         /\ o.st.players[pid].skills["senseDanger"] = 10
         /\ hasType(o.events, "item_spawn")
         /\ o.st.players[pid].skills["scavenge"] = 10
    /\ \E o \in processAction(store, pid, Intent("look", NoTarget, NoId)) :
         /\ dodgedIn(o.events)
         /\ o.st.players[pid].skills["dodge"] = 10

MaxTableLen == 3

(* the lists a roll is made over: every list of 1..MaxTableLen entries *)
RollEntries == {[itemId |-> i, weight |-> w] : i \in {"tonic", "rock", "ghost"}, w \in 0..2}
RollTables == UNION {[1..n -> RollEntries] : n \in 1..MaxTableLen}
RarityItems == {[itemId |-> i, rarity |-> r] : i \in {"tonic", "rock", "ghost"}, r \in {0, 1, 3}}
RarityLists == UNION {[1..n -> RarityItems] : n \in 1..MaxTableLen}

RECURSIVE weightUpTo(_, _)
weightUpTo(entries, k) ==
  IF k = 0 THEN 0 ELSE entries[k].weight + weightUpTo(entries, k - 1)

(* the id the walk is stated to return for a draw, in the half units of the draws *)
statedRoll(entries, roll) ==
  LET stops == {k \in DOMAIN entries : roll - (2 * weightUpTo(entries, k)) <= 0}
  IN  IF stops # {}
      THEN entries[CHOOSE k \in stops : \A j \in stops : k <= j].itemId
      ELSE entries[Len(entries)].itemId

idsOf(entries) == {entries[k].itemId : k \in DOMAIN entries}

rarityEntries(items) ==
  [k \in DOMAIN items |->
     [itemId |-> items[k].itemId,
      weight |-> IF items[k].rarity = 0 THEN 1 ELSE items[k].rarity]]

rollsAsStated ==
  /\ \A entries \in RollTables :
       /\ rollLoot(entries) # {}
       /\ rollLoot(entries) \subseteq idsOf(entries)
       /\ rollLoot(entries)
            = {statedRoll(entries, roll) : roll \in 0..((2 * weightUpTo(entries, Len(entries))) + 1)}
  /\ \A items \in RarityLists :
       /\ rollRandomItemByRarity(items) # {}
       /\ rollRandomItemByRarity(items) \subseteq idsOf(items)
       /\ rollRandomItemByRarity(items)
            = {statedRoll(rarityEntries(items), roll) :
                 roll \in 0..((2 * weightUpTo(rarityEntries(items), Len(items))) + 1)}

(* C29: rollLoot and rollRandomItemByRarity never return undefined or null *)
(* for a non-empty list: for a draw they subtract the weights in list      *)
(* order and return the first entry at which the remainder is <= 0, and    *)
(* the last entry otherwise, so the returned id is always the id of an     *)
(* entry of the input.  It holds for every list of the bounded ranges and  *)
(* for the tables the kills, the loot boxes and the scavenge roll draw on. *)
C29_RollReturnsAnEntry ==
  /\ rollsAsStated
  /\ \A id \in LootTableIds :
       rollLoot(LootTables[id]) # {} /\ rollLoot(LootTables[id]) \subseteq idsOf(LootTables[id])
  /\ \A pid \in PlayerIds :
       players[pid].alive =>
         \A intent \in LootOpenIntents : \A o \in processAction(store, pid, intent) :
           \A i \in DOMAIN o.events :
             o.events[i].type = "lootbox_opened" =>
               /\ o.events[i].detail \in DOMAIN ItemDocs
               /\ \E k \in DOMAIN LootTables[lootboxTableId(ItemDocs[o.events[i].subject].tier)] :
                    LootTables[lootboxTableId(ItemDocs[o.events[i].subject].tier)][k].itemId
                      = o.events[i].detail

C29_Witness ==
  \E pid \in PlayerIds :
    /\ players[pid].inventory = <<"iron_lootbox">>
    /\ rollLoot(LootTables["lootbox_iron"]) = {"rock", "ghost"}
    /\ rollLootAt(LootTables["lootbox_iron"], 7) = "ghost"
    /\ rollLootFrom(LootTables["lootbox_iron"], 7) = NoId
    /\ \E o \in processAction(store, pid, Intent("open", Target(<<"i", "r", "o", "n">>), NoId)) :
         o.st.players[pid].inventory = <<"rock">>
    /\ \E o \in processAction(store, pid, Intent("open", Target(<<"i", "r", "o", "n">>), NoId)) :
         o.st.players[pid].inventory = <<>>

(* the last 20 entries of a list, from its definition *)
mostRecent(all) ==
  IF Len(all) <= 20 THEN all ELSE [i \in 1..20 |-> all[i + (Len(all) - 20)]]

(* C30: after any sequence of addEvent calls the player's eventLog holds   *)
(* at most 20 entries, and they are the most recently added entries in the *)
(* order they were added: the entries carry consecutive clock readings in  *)
(* ascending order, none is dropped before the log holds 20, and a call    *)
(* leaves the last 20 of the old entries followed by the new one.          *)
C30_EventLogBounded ==
  \A pid \in PlayerIds :
    LET log == players[pid].eventLog
    IN  /\ Len(log) <= 20
        /\ \A i \in 1..(Len(log) - 1) : log[i + 1].timestamp = log[i].timestamp + 1
        /\ Len(log) < 20 => (log = <<>> \/ log[1].timestamp = 1)
        /\ \A event \in LoggedEvents :
             LET now == clockAfter(log)
                 after == addEvent(players[pid], event, now).eventLog
             IN  /\ after = mostRecent(log \o <<[type |-> event, timestamp |-> now]>>)
                 /\ after[Len(after)] = [type |-> event, timestamp |-> now]
                 /\ Len(after) = (IF Len(log) < 20 THEN Len(log) + 1 ELSE 20)
                 /\ [addEvent(players[pid], event, now) EXCEPT !.eventLog = log]
                      = players[pid]

C30_Witness ==
  \E pid \in PlayerIds :
    LET log == players[pid].eventLog
    IN  /\ Len(log) = 20 /\ turns = MaxLogged
        /\ log[1].timestamp = 5
        /\ log[20] = [type |-> "combat", timestamp |-> 24]
        /\ log[17].type = "combat" /\ log[16].type = "move"

(***************************************************************************)
(* Interleaved turns.  Each player's connection runs its own turn, and the *)
(* turns take their steps between one another at the awaits.  A turn loads *)
(* its player and the room documents its handler reads (the reads stand at *)
(* the head of handleMove, handleAttack and handlePickup), and later makes *)
(* its writes from the objects it holds; the run of a turn from its first  *)
(* write on is taken in one step.  Here `turns` gives, for every player,   *)
(* the number of turns begun and the turn in flight: <<>>, or the intent,  *)
(* the player object and the room documents as loaded.                     *)
(***************************************************************************)
MaxRaceTurns == 2

RacePlayerIds == {"p1", "p2"}

(* a square with one pipe on the ground and an imp that does not respawn,  *)
(* and an empty lane north of it                                           *)
RaceNodes ==
  [SeedNodes EXCEPT !["plaza"] = Node(<<"imp">>, <<"pipe">>, 0, [n |-> "alley"]),
                    !["alley"] = Node(<<>>, <<>>, 0, [s |-> "plaza"])]

RaceStarts ==
  {createPlayer(createStartingStats, <<>>),
   [createPlayer(createStartingStats, <<>>)
      EXCEPT !.location = "alley", !.explored = <<STARTING_NODE, "alley">>]}

RaceInit ==
  /\ players \in [RacePlayerIds -> RaceStarts]
  /\ nodes = RaceNodes
  /\ entities = SeedEntities
  /\ turns = [pid \in RacePlayerIds |-> [begun |-> 0, inflight |-> <<>>]]

setDoc_keep(stored, data) == stored

(* db.collection(c).doc(id).set(data, { merge: false }): the stored        *)
(* document becomes the object written, whatever it was                    *)
setDoc(stored, data) == data

(* loadPlayer and the handler's getDoc('nodes', ...): what the turn holds *)
loadTurn(st, pid, intent) ==
  [intent |-> intent, player |-> st.players[pid], nodes |-> st.nodes]

(* the handler run on the objects the turn holds, its setDoc calls applied *)
(* to the store as it stands now (a room the handler changed is written,   *)
(* the player is written when the handler saved a change), then the aggro  *)
(* tick on the room as stored now: the results [st, events, returned,      *)
(* threw] the engine call can have                                         *)
engineTurn(st, pid, t) ==
  IF isDead(t.player)
  THEN {[st |-> st, events |-> <<ErrorEv("dead")>>, returned |-> <<t.player>>,
         threw |-> FALSE]}
  ELSE
  LET view == [players |-> [st.players EXCEPT ![pid] = t.player],
               nodes |-> t.nodes, entities |-> st.entities]
  IN  UNION {
        LET st1 == [players |-> IF h.st.players[pid] # t.player
                                THEN [st.players EXCEPT ![pid] = h.st.players[pid]]
                                ELSE st.players,
                    nodes |-> [id \in DOMAIN st.nodes |->
                                 IF h.st.nodes[id] # t.nodes[id]
                                 THEN setDoc(st.nodes[id], h.st.nodes[id])
                                 ELSE st.nodes[id]],
                    entities |-> h.st.entities]
        IN  IF h.threw
            THEN {[st |-> st1, events |-> <<>>, returned |-> <<>>, threw |-> TRUE]}
            ELSE IF aggroRuns(h, t.intent) /\ hasNode(st1, h.player.location)
            THEN {[st |-> aggroSave(st1, pid, a), events |-> h.events \o a.events,
                   returned |-> <<a.player>>, threw |-> FALSE]
                  : a \in aggroLoop(st1, h.player, st1.nodes[h.player.location].entities,
                                    targetedEntity(h.events))}
            ELSE {[st |-> st1, events |-> h.events, returned |-> <<h.player>>,
                   threw |-> FALSE]}
        : h \in dispatch(view, pid, t.player, t.intent)}

(* the stores the turn can leave *)
finishTurn(st, pid, t) == {r.st : r \in engineTurn(st, pid, t)}

RacePickupIntents == {Intent("pickup", Target(Spell("pipe")), NoId)}
RaceAttackIntents == {Intent("attack", Target(Spell("imp")), NoId)}
RaceMoveIntents == {Intent("move", NoTarget, "n"), Intent("move", NoTarget, "s")}

Idle(pid) ==
  /\ turns[pid].inflight = <<>>
  /\ turns[pid].begun < MaxRaceTurns
  /\ players[pid].alive

Begin(pid, intent) ==
  /\ turns' = [turns EXCEPT ![pid] = [begun |-> @.begun + 1,
                                      inflight |-> <<loadTurn(store, pid, intent)>>]]
  /\ UNCHANGED <<players, nodes, entities>>

Finish(pid) ==
  \E s \in finishTurn(store, pid, turns[pid].inflight[1]) :
    /\ Bounded(s)
    /\ players' = s.players
    /\ nodes' = s.nodes
    /\ entities' = s.entities
    /\ turns' = [turns EXCEPT ![pid].inflight = <<>>]

InFlight(pid, action) ==
  turns[pid].inflight # <<>> /\ turns[pid].inflight[1].intent.action = action

RacePickupRead == \E pid \in RacePlayerIds, i \in RacePickupIntents : Idle(pid) /\ Begin(pid, i)
RaceAttackRead == \E pid \in RacePlayerIds, i \in RaceAttackIntents : Idle(pid) /\ Begin(pid, i)
RaceMoveRead == \E pid \in RacePlayerIds, i \in RaceMoveIntents : Idle(pid) /\ Begin(pid, i)
RacePickupWrite == \E pid \in RacePlayerIds : InFlight(pid, "pickup") /\ Finish(pid)
RaceAttackWrite == \E pid \in RacePlayerIds : InFlight(pid, "attack") /\ Finish(pid)
RaceMoveWrite == \E pid \in RacePlayerIds : InFlight(pid, "move") /\ Finish(pid)

NextRace ==
  \/ RacePickupRead \/ RaceAttackRead \/ RaceMoveRead
  \/ RacePickupWrite \/ RaceAttackWrite \/ RaceMoveWrite

SpecRace == RaceInit /\ [][NextRace]_vars

(* the player has a pickup in flight whose room, as read, lists the pipe *)
readThePipe(pid) ==
  /\ InFlight(pid, "pickup")
  /\ LET t == turns[pid].inflight[1]
     IN  /\ t.player.location = "plaza"
         /\ t.nodes["plaza"].items = <<"pipe">>
         /\ ~inventoryFull(t.player, getInventoryCapacity(t.player))

holdsThePipe(player) == \E i \in DOMAIN player.inventory : player.inventory[i] = "pipe"

(* the two pickups finished one after the other, first the one of pid *)
bothFinished(first, second) ==
  UNION {finishTurn(s, second, turns[second].inflight[1])
         : s \in finishTurn(store, first, turns[first].inflight[1])}

(* C31: room documents are written last-write-wins with no locking.  When  *)
(* the pickups of two players in the same room have both read the room     *)
(* with its single pipe before either has written it, then in whichever    *)
(* order the two turns finish, both players end holding a copy of the pipe *)
(* and the room is stored as each turn read it less the pipe.              *)
C31_PickupRace ==
  (readThePipe("p1") /\ readThePipe("p2")) =>
    /\ \A s \in finishTurn(store, "p1", turns["p1"].inflight[1]) :
         holdsThePipe(s.players["p1"]) /\ s.nodes["plaza"].items = <<>>
    /\ \A s \in bothFinished("p1", "p2") \cup bothFinished("p2", "p1") :
         /\ holdsThePipe(s.players["p1"])
         /\ holdsThePipe(s.players["p2"])
         /\ s.nodes["plaza"].items = <<>>

(* both players hold the pipe of which the square had one, and no turn is  *)
(* in flight                                                               *)
C31_Witness ==
  /\ holdsThePipe(players["p1"])
  /\ holdsThePipe(players["p2"])
  /\ \A pid \in RacePlayerIds : turns[pid].inflight = <<>>

(* C32: once a non-respawning entity has been killed and its id removed    *)
(* from its room's entity list, the id never appears in that list again,   *)
(* under every interleaving of the other players' turns (pickup, move with *)
(* item spawn, attack) on the same room: a non-respawning entity whose     *)
(* stored hp is 0 is listed in no room.                                    *)
C32_RemovedForGood ==
  \A eid \in DOMAIN entities :
    (~entities[eid].respawns /\ entities[eid].hp <= 0) =>
      \A id \in DOMAIN nodes :
        \A i \in DOMAIN nodes[id].entities : nodes[id].entities[i] # eid

(* the entity that attacked the player inside the handler, NoId when none  *)
(* did: the first hostile after a failed flee check, the entity attacked   *)
(* when it survived the player's blow                                      *)
handlerAttacker(st, player, h) ==
  IF h.events # <<>> /\ h.events[1] = Ev("skill_check", "Flee", "fail", 0)
  THEN hostileEntities(st, st.nodes[player.location])[1]
  ELSE IF hasType(h.events, "player_attack") /\ ~hasType(h.events, "entity_killed")
  THEN targetedEntity(h.events)
  ELSE NoId

(* C33: in any single turn no entity makes more than one attack attempt    *)
(* against the player: the entities of the aggro pass are distinct, and    *)
(* the entity that attacked inside the handler (the first hostile after a  *)
(* failed flee, the surviving target of an attack) is not among them.      *)
C33_OneAttemptPerEntity ==
  \A pid \in PlayerIds :
    \A intent \in Intents : \A o \in processAction(store, pid, intent) :
      o.handler # <<>> =>
        /\ \A i, j \in DOMAIN o.attempts : o.attempts[i] = o.attempts[j] => i = j
        /\ \A i \in DOMAIN o.attempts :
             o.attempts[i] # handlerAttacker(store, players[pid], o.handler[1])

(* C34: a turn in which the flee check succeeds and the player relocates   *)
(* applies no entity attack to the player: no entity of the room fled from *)
(* and none of the destination room attacks in that turn, and the player's *)
(* hp at the end of the turn equals its hp at the start.                   *)
C34_CleanEscape ==
  \A pid \in PlayerIds :
    \A o \in processAction(store, pid, Intent("flee", NoTarget, NoId)) :
      (o.handler # <<>> /\ hasType(o.handler[1].events, "move")) =>
        /\ o.attempts = <<>>
        /\ ~hasType(o.events, "entity_attack")
        /\ o.returned[1].hp = players[pid].hp
        /\ o.st.players[pid].hp = players[pid].hp

(* the room lists a living entity whose name contains the target string *)
livingMatch(st, node, target) ==
  \E i \in DOMAIN node.entities :
    /\ hasEntity(st, node.entities[i])
    /\ st.entities[node.entities[i]].hp > 0
    /\ includes(toLowerCase(st.entities[node.entities[i]].name), toLowerCase(orEmpty(target)))

(* C35: if the room lists a living entity whose name contains the target   *)
(* string (case-insensitively), attack resolves combat against a living    *)
(* entity, even when a dead entity that still stands in the room's list    *)
(* and has a matching name comes earlier in the list: the turn has a       *)
(* player_attack event, and its subject had hp above 0.                    *)
C35_AttackFindsTheLiving ==
  \A pid \in PlayerIds :
    (players[pid].alive /\ hasNode(store, players[pid].location)) =>
      \A intent \in AttackIntents :
        livingMatch(store, nodes[players[pid].location], intent.target) =>
          \A o \in processAction(store, pid, intent) :
            /\ hasType(o.events, "player_attack")
            /\ entities[targetedEntity(o.events)].hp > 0

(* C36: at the end of every processAction call that returns a player, the  *)
(* stored player document equals the returned player object: every         *)
(* mutation made by the handler or by the aggro pass (hp, alive, skills,   *)
(* location, inventory, xp) is persisted before the call returns, and the  *)
(* one write of the aggro pass, made after its last attack, stores the     *)
(* player as that attack left it.                                          *)
C36_ReturnedIsStored ==
  \A pid \in PlayerIds :
    \A intent \in Intents : \A o \in processAction(store, pid, intent) :
      (~o.threw /\ o.returned # <<>>) =>
        /\ o.st.players[pid] = o.returned[1]
        /\ (o.handler # <<>> /\ o.attempts = <<>>) => o.returned[1] = o.handler[1].player

(* a look whose aggro pass has two entities attack, the second with effect, *)
(* after a turn that already changed the player                            *)
C36_Witness ==
  \E pid \in PlayerIds :
    /\ turns > 0 /\ players[pid].inventory # <<>>
    /\ \E o \in processAction(store, pid, Intent("look", NoTarget, NoId)) :
         /\ Len(o.attempts) = 2
         /\ o.handler[1].player = players[pid]
         /\ o.returned[1].hp < players[pid].hp
         /\ o.st.players[pid].hp = o.returned[1].hp
    /\ \E o \in processAction(store, pid, Intent("move", NoTarget, "n")) :
         /\ o.returned[1].location = "alley"
         /\ o.returned[1].hp < players[pid].hp
         /\ o.st.players[pid] = o.returned[1]

(* the sum of the six stats *)
RECURSIVE sumOver(_, _)
sumOver(stats, names) ==
  IF names = {} THEN 0
  ELSE LET s == CHOOSE x \in names : TRUE
       IN  stats[s] + sumOver(stats, names \ {s})

statSum(stats) == sumOver(stats, STATS)

(* C37: stat points are conserved.  After any sequence of kills, loot box  *)
(* openings, bonus XP and allocate actions, the sum of the player's six    *)
(* stats plus statPointsAvailable equals the sum of the six stats at       *)
(* creation plus 2 * (level - 1).                                          *)
C37_StatPointsConserved ==
  \A pid \in PlayerIds :
    statSum(players[pid].stats) + players[pid].statPointsAvailable
      = statSum(createStartingStats) + (2 * (players[pid].level - 1))

(* a player who levelled up and has spent one of the two points on con *)
C37_Witness ==
  \E pid \in PlayerIds :
    /\ players[pid].level = 2
    /\ players[pid].stats["con"] = 11
    /\ players[pid].statPointsAvailable = 1

(* a player who levelled up on bonus XP after opening a loot box *)
C37_WitnessBonus ==
  \E pid \in PlayerIds :
    /\ players[pid].level = 2
    /\ players[pid].statistics.entitiesKilled = 0
    /\ players[pid].statistics.lootboxesOpened = 1
    /\ players[pid].statPointsAvailable = 2

(***************************************************************************)
(* One WebSocket connection.  Every message starts its own run of the      *)
(* message handler, and the runs take their steps between one another at   *)
(* the awaits.  Here `turns` is the connection: playerId and               *)
(* pendingCharacterData (the two variables of the connection's closure),   *)
(* the number of messages received, of ids minted by uuidv4 and of         *)
(* character previews sent, and for every message the run of the handler   *)
(* it started: <<>> when the run is over, else where the run stands and    *)
(* the objects it holds.                                                   *)
(***************************************************************************)
MaxMessages == 4

UserIds == <<"u1", "u2", "u3", "u4">>

(* a quiet square: the merchant, a pipe and a tonic on the ground *)
SocketNodes ==
  [SeedNodes EXCEPT !["plaza"] = Node(<<"bob">>, <<"pipe", "tonic">>, 0, [n |-> NoId])]

(* the character data the interpreter can hand back *)
CharacterSheets ==
  {[stats |-> [createStartingStats EXCEPT ![s] = 13]] : s \in {"str", "con"}}

(* the intents the parser can hand to the engine *)
SocketIntents ==
  {Intent("pickup", Target(Spell("pipe")), NoId), Intent("pickup", Target(Spell("tonic")), NoId),
   Intent("look", NoTarget, NoId)}

SocketInit ==
  /\ players = [id \in {} |-> id]
  /\ nodes = SocketNodes
  /\ entities = SeedEntities
  /\ turns = [playerId |-> NoId, pendingCharacterData |-> <<>>, received |-> 0,
              minted |-> 0, previews |-> 0,
              handlers |-> [m \in 1..MaxMessages |-> <<>>]]

(* ws.on('message'): the next message starts a run that stands at `run` *)
Received(run) ==
  [turns EXCEPT !.received = @ + 1, !.handlers[turns.received + 1] = run]

Listening == turns.received < MaxMessages

Standing(m, pc) == turns.handlers[m] # <<>> /\ turns.handlers[m][1].pc = pc

(* create_player: the run waits for interpretCharacter *)
DescribeReceived ==
  /\ Listening
  /\ \E sheet \in CharacterSheets :
       turns' = Received(<<[type |-> "create_player", pc |-> "interpret", characterData |-> sheet]>>)
  /\ UNCHANGED <<players, nodes, entities>>

(* pendingCharacterData = characterData, then the preview is sent *)
DescribeInterpreted ==
  \E m \in 1..MaxMessages :
    /\ Standing(m, "interpret")
    /\ turns' = [turns EXCEPT !.pendingCharacterData = <<turns.handlers[m][1].characterData>>,
                              !.previews = @ + 1,
                              !.handlers[m] = <<>>]
    /\ UNCHANGED <<players, nodes, entities>>

(* confirm_character with nothing pending: an error is sent *)
ConfirmRefused ==
  /\ Listening
  /\ turns.pendingCharacterData = <<>>
  /\ turns' = Received(<<>>)
  /\ UNCHANGED <<players, nodes, entities>>

(* confirm_character: createPlayer builds the player under a new id and    *)
(* the run waits for its setDoc                                            *)
ConfirmReceived ==
  /\ Listening
  /\ turns.pendingCharacterData # <<>>
  /\ turns' = [Received(<<[type |-> "confirm_character", pc |-> "create",
                           id |-> UserIds[turns.minted + 1],
                           player |-> createPlayer(turns.pendingCharacterData[1].stats, <<>>)]>>)
                 EXCEPT !.minted = @ + 1]
  /\ UNCHANGED <<players, nodes, entities>>

(* the player is stored; playerId = player.id, pendingCharacterData = null, *)
(* and runPipeline(playerId, 'look') loads the player                      *)
ConfirmCreated ==
  \E m \in 1..MaxMessages :
    /\ Standing(m, "create")
    /\ LET h == turns.handlers[m][1]
           created == [id \in DOMAIN players \cup {h.id} |->
                         IF id = h.id THEN h.player ELSE players[id]]
           st == [players |-> created, nodes |-> nodes, entities |-> entities]
       IN  /\ players' = created
           /\ turns' = [turns EXCEPT
                          !.playerId = h.id,
                          !.pendingCharacterData = <<>>,
                          !.handlers[m] =
                            <<[type |-> h.type, pc |-> "engine", pid |-> h.id,
                               turn |-> loadTurn(st, h.id, Intent("look", NoTarget, NoId))]>>]
    /\ UNCHANGED <<nodes, entities>>

(* load_player: playerId = player.id for a stored player, then the look *)
LoadReceived ==
  /\ Listening
  /\ \E id \in DOMAIN players :
       turns' = [Received(<<[type |-> "load_player", pc |-> "engine", pid |-> id,
                             turn |-> loadTurn(store, id, Intent("look", NoTarget, NoId))]>>)
                   EXCEPT !.playerId = id]
  /\ UNCHANGED <<players, nodes, entities>>

(* game_input with no player: an error is sent *)
InputRefused ==
  /\ Listening
  /\ turns.playerId = NoId
  /\ turns' = Received(<<>>)
  /\ UNCHANGED <<players, nodes, entities>>

(* game_input: runPipeline parses the text and processAction loads the player *)
InputReceived ==
  /\ Listening
  /\ turns.playerId # NoId
  /\ \E intent \in SocketIntents :
       turns' = Received(<<[type |-> "game_input", pc |-> "engine", pid |-> turns.playerId,
                            turn |-> loadTurn(store, turns.playerId, intent)]>>)
  /\ UNCHANGED <<players, nodes, entities>>

(* the handler and the aggro tick; the run then waits for the showrunner *)
EngineDone ==
  \E m \in 1..MaxMessages :
    /\ Standing(m, "engine")
    /\ LET h == turns.handlers[m][1]
       IN  \E r \in engineTurn(store, h.pid, h.turn) :
             /\ players' = r.st.players
             /\ nodes' = r.st.nodes
             /\ entities' = r.st.entities
             /\ turns' = [turns EXCEPT !.handlers[m] =
                            IF r.threw \/ r.returned = <<>> THEN <<>>
                            ELSE <<[type |-> h.type, pc |-> "showrunner", pid |-> h.pid,
                                    events |-> r.events,
                                    player |-> r.returned[1]]>>]

(* the achievement and the bonus XP are applied to the player object the   *)
(* run holds, which is saved if either was awarded                         *)
ShowrunnerDone ==
  \E m \in 1..MaxMessages :
    /\ Standing(m, "showrunner")
    /\ LET h == turns.handlers[m][1]
       IN  \E achievement \in checkAchievement(h.events), bonusXp \in evaluateBonusXp(h.events) :
             LET a == applyAchievement(h.player, h.events, achievement)
                 b == applyBonusXp(a.player, a.events, bonusXp)
                 st == IF achievement # NoId \/ bonusXp # 0
                       THEN savePlayer(store, h.pid, b.player) ELSE store
             IN  /\ Bounded(st)
                 /\ players' = st.players
    /\ turns' = [turns EXCEPT !.handlers[m] = <<>>]
    /\ UNCHANGED <<nodes, entities>>

NextSocket ==
  \/ DescribeReceived \/ DescribeInterpreted \/ ConfirmRefused \/ ConfirmReceived
  \/ ConfirmCreated \/ LoadReceived \/ InputRefused \/ InputReceived
  \/ EngineDone \/ ShowrunnerDone

SpecSocket == SocketInit /\ [][NextSocket]_vars

(* C38: turns of the same player are serialized.  When two game_input      *)
(* messages arrive on one connection, the second turn loads the player     *)
(* state written by the first, so that no update of one turn is            *)
(* overwritten by another turn of the same player: a run of the handler    *)
(* that has loaded its player and not yet finished the engine call holds   *)
(* the player as stored, and a run that waits for the showrunner holds the *)
(* player as stored.                                                       *)
C38_TurnsSerialized ==
  \A m \in 1..MaxMessages :
    (turns.handlers[m] # <<>> /\ turns.handlers[m][1].type = "game_input") =>
      /\ Standing(m, "engine") =>
           turns.handlers[m][1].turn.player = players[turns.handlers[m][1].pid]
      /\ Standing(m, "showrunner") =>
           turns.handlers[m][1].player = players[turns.handlers[m][1].pid]

(* C39: each character preview leads to at most one created player.  A     *)
(* confirm_character without pending character data creates nothing, and a *)
(* second confirm_character with no new create_player in between creates   *)
(* no second player, even when it arrives while the first confirmation is  *)
(* still being processed: the players stored are never more than the       *)
(* previews sent.                                                          *)
C39_OnePlayerPerPreview == Cardinality(DOMAIN players) <= turns.previews

(***************************************************************************)
(* The interpreter's validation of a character payload.  A stat of the     *)
(* payload is either no number (missing, a string, NaN) or a number, given *)
(* here in halves so that Math.round has something to round.               *)
(***************************************************************************)
STAT_NAMES == <<"str", "dex", "con", "int", "wis", "cha">>

NotANumber == [isNumber |-> FALSE, halves |-> 0]
Number(halves) == [isNumber |-> TRUE, halves |-> halves]

(* 1.5, 10, 10.5 and 30 in halves *)
RawStatValues == {NotANumber, Number(3), Number(20), Number(21), Number(60)}

(* Math.round of a number given in halves: halves up *)
roundHalves(h) == (h + 1) \div 2

(* if (typeof val !== 'number' || isNaN(val)) val = 10; then the clamp *)
clampStat(val) ==
  IF ~val.isNumber THEN Max(STAT_MIN, Min(STAT_MAX, 10))
  ELSE Max(STAT_MIN, Min(STAT_MAX, roundHalves(val.halves)))

(* the loop over adjustable: each of the first `remaining` names moves by *)
(* one in the direction of the difference                                  *)
RECURSIVE adjustStats(_, _, _, _)
adjustStats(stats, adjustable, remaining, direction) ==
  IF remaining <= 0 \/ adjustable = <<>> THEN stats
  ELSE adjustStats([stats EXCEPT ![Head(adjustable)] = @ + direction],
                   Tail(adjustable), remaining - 1, direction)

RECURSIVE totalOf(_, _)
totalOf(stats, names) ==
  IF names = <<>> THEN 0 ELSE stats[Head(names)] + totalOf(stats, Tail(names))

(* the stats of validateCharacterPayload(data) *)
validateCharacterPayload(rawStats) ==
  LET clamped == [s \in STATS |-> clampStat(rawStats[s])]
      currentTotal == totalOf(clamped, STAT_NAMES)
      diff == STAT_TOTAL - currentTotal
      adjustable == SelectSeq(STAT_NAMES,
                              LAMBDA s : IF diff > 0 THEN clamped[s] < STAT_MAX
                                         ELSE clamped[s] > STAT_MIN)
  IN  IF currentTotal # STAT_TOTAL
      THEN adjustStats(clamped, adjustable, IF diff > 0 THEN diff ELSE 0 - diff,
                       IF diff > 0 THEN 1 ELSE 0 - 1)
      ELSE clamped

(* a payload comes back from the language model and is validated: `turns`  *)
(* holds the payload's stats and, once validated, the stats returned       *)
SheetInit ==
  /\ players = [id \in {} |-> id]
  /\ nodes = SeedNodes
  /\ entities = SeedEntities
  /\ turns \in {[raw |-> raw, validated |-> <<>>] : raw \in [STATS -> RawStatValues]}

Validate ==
  /\ turns.validated = <<>>
  /\ turns' = [turns EXCEPT !.validated = <<validateCharacterPayload(turns.raw)>>]
  /\ UNCHANGED <<players, nodes, entities>>

SpecSheet == SheetInit /\ [][Validate]_vars

(* C40: validateCharacterPayload clamps the stats and enforces the total:  *)
(* for every input stats object (missing, non-numeric and out-of-range     *)
(* values included) the six stats returned are each in 7..13 and sum to    *)
(* exactly 63.                                                             *)
C40_StatsValidated ==
  turns.validated # <<>> =>
    /\ \A s \in STATS : turns.validated[1][s] \in 7..13
    /\ statSum(turns.validated[1]) = 63

====
